---- MODULE Spec2Model ----
(***************************************************************************)
(* Blue Railroad import bot: chain-data aggregation, page generation, the  *)
(* wiki synchronisation engine (save_page) and the orchestrator (run).     *)
(*                                                                         *)
(* Python values are tagged records, so that None, integers, strings and   *)
(* lists stay distinct values as they are in the program.  Strings are     *)
(* TLA+ strings and are concatenated with \o, as the f-strings do.         *)
(***************************************************************************)
EXTENDS Integers, Sequences, FiniteSets, TLC

(***************************************************************************)
(* Python values                                                           *)
(***************************************************************************)
PyNone == [t |-> "none"]
PyInt(n) == [t |-> "int", n |-> n]
PyS(s) == [t |-> "str", s |-> s]
PyList(l) == [t |-> "list", l |-> l]

\* bool(v)
Truthy(v) ==
    CASE v.t = "none" -> FALSE
      [] v.t = "int"  -> v.n # 0
      [] v.t = "str"  -> v.s # ""
      [] v.t = "list" -> Len(v.l) > 0

\* str(v), as an f-string or str() renders it
Str(v) ==
    CASE v.t = "none" -> "None"
      [] v.t = "int"  -> ToString(v.n)
      [] v.t = "str"  -> v.s
      [] v.t = "list" -> "[...]"

\* f"{v or ''}"
StrOrEmpty(v) == IF Truthy(v) THEN Str(v) ELSE ""

\* d.get(key), d a JSON object: a function whose domain is the keys present
Get(d, key) == IF key \in DOMAIN d THEN d[key] ELSE PyNone

\* d.get(key, default)
GetOr(d, key, default) == IF key \in DOMAIN d THEN d[key] ELSE default

(***************************************************************************)
(* Insertion-ordered dicts: a sequence of [k, v] entries with distinct k.  *)
(* Assigning to a key that is present replaces the value in place.         *)
(***************************************************************************)
DictKeys(d) == [i \in 1..Len(d) |-> d[i].k]

DictHas(d, key) == \E i \in 1..Len(d) : d[i].k = key

DictIndex(d, key) == CHOOSE i \in 1..Len(d) : d[i].k = key

DictGet(d, key) == d[DictIndex(d, key)].v

DictPut(d, key, val) ==
    IF DictHas(d, key)
    THEN [d EXCEPT ![DictIndex(d, key)] = [k |-> key, v |-> val]]
    ELSE Append(d, [k |-> key, v |-> val])

(***************************************************************************)
(* chain_data.py                                                           *)
(***************************************************************************)
\* extract_value returning a list as it is
extract_value_NoUnwrap(data, key) == Get(data, key)

\* extract_value: a one-element list is unwrapped, an empty list is None
extract_value(data, key) ==
    LET val == Get(data, key)
    IN  IF val.t = "list"
        THEN IF Len(val.l) > 0 THEN val.l[1] ELSE PyNone
        ELSE val

\* parse_token keeping every songId that is not None
parse_token_AnySongId(token_id, token_data, source_key) ==
    [ token_id      |-> token_id,
      source_key    |-> source_key,
      owner         |-> GetOr(token_data, "owner", PyS("")),
      owner_display |-> GetOr(token_data, "ownerDisplay",
                              GetOr(token_data, "owner", PyS(""))),
      song_id       |-> IF extract_value(token_data, "songId") # PyNone
                        THEN PyS(Str(extract_value(token_data, "songId")))
                        ELSE PyNone,
      date          |-> extract_value(token_data, "date"),
      uri           |-> Get(token_data, "uri"),
      blockheight   |-> extract_value(token_data, "blockheight"),
      video_hash    |-> Get(token_data, "videoHash") ]

parse_token(token_id, token_data, source_key) ==
    [ token_id      |-> token_id,
      source_key    |-> source_key,
      owner         |-> GetOr(token_data, "owner", PyS("")),
      owner_display |-> GetOr(token_data, "ownerDisplay",
                              GetOr(token_data, "owner", PyS(""))),
      song_id       |-> IF Truthy(extract_value(token_data, "songId"))
                        THEN PyS(Str(extract_value(token_data, "songId")))
                        ELSE PyNone,
      date          |-> extract_value(token_data, "date"),
      uri           |-> Get(token_data, "uri"),
      blockheight   |-> extract_value(token_data, "blockheight"),
      video_hash    |-> Get(token_data, "videoHash") ]

\* chain_data.get(source.chain_data_key, {}) and the tokens parsed from it, in
\* the order of the source's own entries
iter_tokens_from_source(chain_data, source) ==
    LET source_data == IF DictHas(chain_data, source.chain_data_key)
                       THEN DictGet(chain_data, source.chain_data_key)
                       ELSE <<>>
    IN  [i \in 1..Len(source_data) |->
            parse_token(source_data[i].k, source_data[i].v, source.chain_data_key)]

\* f"{token.source_key}_{token.token_id}"
aggregate_key(token) == token.source_key \o "_" \o token.token_id

RECURSIVE InsertTokens(_, _)
InsertTokens(all_tokens, toks) ==
    IF toks = <<>> THEN all_tokens
    ELSE InsertTokens(DictPut(all_tokens, aggregate_key(Head(toks)), Head(toks)),
                      Tail(toks))

RECURSIVE AggregateFrom(_, _, _)
AggregateFrom(all_tokens, chain_data, sources) ==
    IF sources = <<>> THEN all_tokens
    ELSE AggregateFrom(
            InsertTokens(all_tokens, iter_tokens_from_source(chain_data, Head(sources))),
            chain_data, Tail(sources))

aggregate_tokens_from_sources(chain_data, sources) ==
    AggregateFrom(<<>>, chain_data, sources)

(***************************************************************************)
(* String helpers                                                          *)
(***************************************************************************)
StartsWith(s, prefix) ==
    Len(s) >= Len(prefix) /\ SubSeq(s, 1, Len(prefix)) = prefix

\* s[n:]
DropPrefix(s, n) == IF Len(s) > n THEN SubSeq(s, n + 1, Len(s)) ELSE ""

Digits == <<"0", "1", "2", "3", "4", "5", "6", "7", "8", "9">>

IsDigitChar(c) == \E i \in 1..10 : Digits[i] = c

DigitValue(c) == (CHOOSE i \in 1..10 : Digits[i] = c) - 1

\* str.isdigit(): non-empty and every character a digit
isdigit(s) ==
    Len(s) > 0 /\ \A i \in 1..Len(s) : IsDigitChar(SubSeq(s, i, i))

\* int(s) for a string of digits
RECURSIVE ParseInt(_, _)
ParseInt(s, acc) ==
    IF s = "" THEN acc
    ELSE ParseInt(DropPrefix(s, 1), 10 * acc + DigitValue(SubSeq(s, 1, 1)))

int(s) == ParseInt(s, 0)

Upper == <<"A", "B", "C", "D", "E", "F", "G", "H", "I", "J", "K", "L", "M",
           "N", "O", "P", "Q", "R", "S", "T", "U", "V", "W", "X", "Y", "Z">>
Lower == <<"a", "b", "c", "d", "e", "f", "g", "h", "i", "j", "k", "l", "m",
           "n", "o", "p", "q", "r", "s", "t", "u", "v", "w", "x", "y", "z">>

LowerChar(c) ==
    IF \E i \in 1..26 : Upper[i] = c
    THEN Lower[CHOOSE i \in 1..26 : Upper[i] = c]
    ELSE c

\* str.lower()
RECURSIVE lower(_)
lower(s) ==
    IF s = "" THEN ""
    ELSE LowerChar(SubSeq(s, 1, 1)) \o lower(DropPrefix(s, 1))

\* sep.join(parts)
RECURSIVE Join(_, _)
Join(parts, sep) ==
    IF parts = <<>> THEN ""
    ELSE IF Len(parts) = 1 THEN parts[1]
    ELSE parts[1] \o sep \o Join(Tail(parts), sep)

Pad2(n) == IF n < 10 THEN "0" \o ToString(n) ELSE ToString(n)

(***************************************************************************)
(* sorted(items, key=..., reverse=...): stable.  Each item is [key, e];    *)
(* a key is [inf, n], inf standing for float('inf').  Items with equal     *)
(* keys keep their order, also under reverse=True.                         *)
(***************************************************************************)
Key(n) == [inf |-> FALSE, n |-> n]

KeyInf == [inf |-> TRUE, n |-> 0]

KeyLt(a, b) == ~a.inf /\ (b.inf \/ a.n < b.n)

\* whether item a sorts strictly before item b
SortsBefore(a, b, reverse) ==
    IF reverse THEN KeyLt(b.key, a.key) ELSE KeyLt(a.key, b.key)

SortInsert(sorted, item, reverse) ==
    LET later == {i \in 1..Len(sorted) : SortsBefore(item, sorted[i], reverse)}
        pos   == IF later = {} THEN Len(sorted) + 1
                 ELSE CHOOSE i \in later : \A j \in later : i <= j
    IN  SubSeq(sorted, 1, pos - 1) \o <<item>> \o SubSeq(sorted, pos, Len(sorted))

RECURSIVE SortFrom(_, _, _)
SortFrom(sorted, rest, reverse) ==
    IF rest = <<>> THEN sorted
    ELSE SortFrom(SortInsert(sorted, Head(rest), reverse), Tail(rest), reverse)

\* the elements of items, sorted by their keys
sorted(items, reverse) ==
    LET out == SortFrom(<<>>, items, reverse)
    IN  [i \in 1..Len(out) |-> out[i].e]

(***************************************************************************)
(* models.py: Token                                                        *)
(***************************************************************************)
is_v2(token) == token.blockheight # PyNone

\* The calendar date of a Unix timestamp (days since 1970-01-01), the host's
\* zone taken to be UTC.
CivilFromTimestamp(ts) ==
    LET z   == (ts \div 86400) + 719468
        era == z \div 146097
        doe == z - era * 146097
        yoe == (doe - (doe \div 1460) + (doe \div 36524) - (doe \div 146096)) \div 365
        doy == doe - (365 * yoe + (yoe \div 4) - (yoe \div 100))
        mp  == (5 * doy + 2) \div 153
        d   == doy - ((153 * mp + 2) \div 5) + 1
        m   == IF mp < 10 THEN mp + 3 ELSE mp - 9
        y   == yoe + era * 400 + (IF m <= 2 THEN 1 ELSE 0)
    IN  ToString(y) \o "-" \o Pad2(m) \o "-" \o Pad2(d)

formatted_date(token) ==
    IF token.date = PyNone THEN PyNone
    ELSE LET date_str == Str(token.date)
         IN  IF Len(date_str) = 8 /\ SubSeq(date_str, 1, 1) = "2"
             THEN PyS(SubSeq(date_str, 1, 4) \o "-" \o SubSeq(date_str, 5, 6)
                      \o "-" \o SubSeq(date_str, 7, 8))
             ELSE IF Len(date_str) >= 10 /\ isdigit(date_str)
             THEN PyS(CivilFromTimestamp(int(date_str)))
             ELSE PyNone

ZeroHash == "0x" \o "0000000000000000000000000000000000000000000000000000000000000000"

\* ipfs_cid falling back to the uri when a V2 token has no usable video hash
ipfs_cid_UriFallback(token) ==
    IF is_v2(token) /\ Truthy(token.video_hash) /\ token.video_hash # PyS(ZeroHash)
    THEN IF StartsWith(token.video_hash.s, "0x")
         THEN PyS(DropPrefix(token.video_hash.s, 2))
         ELSE token.video_hash
    ELSE IF Truthy(token.uri) /\ StartsWith(token.uri.s, "ipfs://")
         THEN PyS(DropPrefix(token.uri.s, 7))
         ELSE PyNone

ipfs_cid(token) ==
    IF is_v2(token)
    THEN IF Truthy(token.video_hash) /\ token.video_hash # PyS(ZeroHash)
         THEN IF StartsWith(token.video_hash.s, "0x")
              THEN PyS(DropPrefix(token.video_hash.s, 2))
              ELSE token.video_hash
         ELSE PyNone
    ELSE IF Truthy(token.uri) /\ StartsWith(token.uri.s, "ipfs://")
         THEN PyS(DropPrefix(token.uri.s, 7))
         ELSE PyNone

(***************************************************************************)
(* token_page.py                                                           *)
(***************************************************************************)
generate_token_page_content(token) ==
    Join(
      << "{{Blue Railroad Token",
         "|token_id=" \o token.token_id,
         "|song_id=" \o StrOrEmpty(token.song_id),
         "|contract_version=" \o (IF is_v2(token) THEN "V2" ELSE "V1") >>
      \o (IF is_v2(token)
          THEN << "|blockheight=" \o StrOrEmpty(token.blockheight),
                  "|video_hash=" \o StrOrEmpty(token.video_hash) >>
          ELSE << "|date=" \o StrOrEmpty(formatted_date(token)),
                  "|date_raw=" \o StrOrEmpty(token.date) >>)
      \o << "|owner=" \o Str(token.owner),
            "|owner_display=" \o Str(token.owner_display),
            "|uri=" \o StrOrEmpty(token.uri),
            "|uri_type=" \o (IF Truthy(ipfs_cid(token)) THEN "ipfs" ELSE "unknown"),
            "|ipfs_cid=" \o StrOrEmpty(ipfs_cid(token)),
            "}}",
            "",
            "[[Category:Blue Railroad Tokens]]" >>
      \o (IF is_v2(token) THEN << "[[Category:Blue Railroad V2 Tokens]]" >> ELSE <<>>),
      "\n")

(***************************************************************************)
(* models.py: OwnerStats, LeaderboardConfig                                *)
(***************************************************************************)
NewOwnerStats(address, display_name) ==
    [ address      |-> address,
      display_name |-> display_name,
      token_count  |-> 0,
      token_ids    |-> <<>>,
      newest_date  |-> 0,
      oldest_date  |-> 0 ]

\* OwnerStats.add_token; date is None or an integer
add_token(st, token_id, date) ==
    LET counted == [st EXCEPT !.token_count = @ + 1,
                              !.token_ids = Append(@, token_id)]
    IN  IF Truthy(date)
        THEN [counted EXCEPT
                !.newest_date = IF date.n > st.newest_date THEN date.n ELSE @,
                !.oldest_date = IF st.oldest_date = 0 \/ date.n < st.oldest_date
                                THEN date.n ELSE @]
        ELSE counted

\* LeaderboardConfig(...) with __post_init__: a blank title becomes the page
LeaderboardConfig(page, title, description, filter_song_id, filter_owner, sort) ==
    [ page           |-> page,
      title          |-> IF title = "" THEN page ELSE title,
      description    |-> description,
      filter_song_id |-> filter_song_id,
      filter_owner   |-> filter_owner,
      sort           |-> sort ]

Source(name, chain_data_key, network_id, contract) ==
    [ name |-> name, chain_data_key |-> chain_data_key,
      network_id |-> network_id, contract |-> contract ]

(***************************************************************************)
(* leaderboard.py                                                          *)
(***************************************************************************)
\* EXERCISE_MAP.get(song_id, f"Exercise ID {song_id}")
ExerciseName(song_id) ==
    CASE song_id = "5"  -> "Squats ([[Blue Railroad Train]])"
      [] song_id = "6"  -> "Pushups ([[Nine Pound Hammer]])"
      [] song_id = "7"  -> "Squats ([[Blue Railroad Train]]) (legacy)"
      [] song_id = "10" -> "Army Crawls ([[Ginseng Sullivan]])"
      [] OTHER          -> "Exercise ID " \o song_id

\* PassesFilters comparing the owner as it is written
PassesFilters_ExactOwner(token, filter_song_id, filter_owner) ==
    /\ Truthy(filter_song_id) => token.song_id = filter_song_id
    /\ Truthy(filter_owner) => token.owner = filter_owner

\* whether filter_tokens keeps the token
PassesFilters(token, filter_song_id, filter_owner) ==
    /\ Truthy(filter_song_id) => token.song_id = filter_song_id
    /\ Truthy(filter_owner) => lower(token.owner.s) = lower(filter_owner.s)

RECURSIVE FilterFrom(_, _, _, _)
FilterFrom(result, tokens, filter_song_id, filter_owner) ==
    IF tokens = <<>> THEN result
    ELSE FilterFrom(
            IF PassesFilters(Head(tokens).v, filter_song_id, filter_owner)
            THEN DictPut(result, Head(tokens).k, Head(tokens).v)
            ELSE result,
            Tail(tokens), filter_song_id, filter_owner)

filter_tokens(tokens, filter_song_id, filter_owner) ==
    FilterFrom(<<>>, tokens, filter_song_id, filter_owner)

\* StatsStep making a new bucket for every token
StatsStep_FreshBucket(stats, token) ==
    IF ~Truthy(token.owner) THEN stats
    ELSE LET date_val == IF Truthy(token.date) THEN token.date
                         ELSE IF Truthy(token.blockheight) THEN token.blockheight
                         ELSE PyInt(0)
         IN  DictPut(stats, token.owner,
                     add_token(NewOwnerStats(token.owner, token.owner_display),
                               token.token_id, date_val))

\* StatsStep taking the display name of every token it adds
StatsStep_LastDisplay(stats, token) ==
    IF ~Truthy(token.owner) THEN stats
    ELSE LET owner_addr == token.owner
             withOwner  == IF DictHas(stats, owner_addr) THEN stats
                           ELSE DictPut(stats, owner_addr,
                                        NewOwnerStats(owner_addr, token.owner_display))
             date_val   == IF Truthy(token.date) THEN token.date
                           ELSE IF Truthy(token.blockheight) THEN token.blockheight
                           ELSE PyInt(0)
         IN  DictPut(withOwner, owner_addr,
                     [add_token(DictGet(withOwner, owner_addr), token.token_id, date_val)
                        EXCEPT !.display_name = token.owner_display])

\* one iteration of calculate_owner_stats' loop
StatsStep(stats, token) ==
    IF ~Truthy(token.owner) THEN stats
    ELSE LET owner_addr == token.owner
             withOwner  == IF DictHas(stats, owner_addr) THEN stats
                           ELSE DictPut(stats, owner_addr,
                                        NewOwnerStats(owner_addr, token.owner_display))
             date_val   == IF Truthy(token.date) THEN token.date
                           ELSE IF Truthy(token.blockheight) THEN token.blockheight
                           ELSE PyInt(0)
         IN  DictPut(withOwner, owner_addr,
                     add_token(DictGet(withOwner, owner_addr), token.token_id, date_val))

RECURSIVE StatsFrom(_, _)
StatsFrom(stats, tokens) ==
    IF tokens = <<>> THEN stats
    ELSE StatsFrom(StatsStep(stats, Head(tokens).v), Tail(tokens))

calculate_owner_stats(tokens) == StatsFrom(<<>>, tokens)

\* sort_owners ordering by the oldest date as it is stored, 0 included
sort_owners_ZeroIsOldest(stats, sort_by) ==
    IF sort_by = "newest"
    THEN sorted([i \in 1..Len(stats) |->
                    [key |-> Key(stats[i].v.newest_date), e |-> stats[i].k]], TRUE)
    ELSE IF sort_by = "oldest"
    THEN sorted([i \in 1..Len(stats) |->
                    [key |-> Key(stats[i].v.oldest_date), e |-> stats[i].k]], FALSE)
    ELSE sorted([i \in 1..Len(stats) |->
                    [key |-> Key(stats[i].v.token_count), e |-> stats[i].k]], TRUE)

sort_owners(stats, sort_by) ==
    IF sort_by = "newest"
    THEN sorted([i \in 1..Len(stats) |->
                    [key |-> Key(stats[i].v.newest_date), e |-> stats[i].k]], TRUE)
    ELSE IF sort_by = "oldest"
    THEN sorted([i \in 1..Len(stats) |->
                    [key |-> IF stats[i].v.oldest_date # 0
                             THEN Key(stats[i].v.oldest_date) ELSE KeyInf,
                     e |-> stats[i].k]], FALSE)
    ELSE sorted([i \in 1..Len(stats) |->
                    [key |-> Key(stats[i].v.token_count), e |-> stats[i].k]], TRUE)

\* sorted_ids leaving the ids in the order they were added
sorted_ids_AsAdded(token_ids) == token_ids

\* sorted(stats.token_ids, key=lambda x: int(x) if x.isdigit() else 0)
sorted_ids(token_ids) ==
    sorted([i \in 1..Len(token_ids) |->
               [key |-> Key(IF isdigit(token_ids[i]) THEN int(token_ids[i]) ELSE 0),
                e |-> token_ids[i]]], FALSE)

\* The table rows of a leaderboard, in rank order: what the loop over
\* enumerate(sorted_owners, 1) formats.
LeaderboardRows(tokens, config) ==
    LET filtered      == filter_tokens(tokens, config.filter_song_id, config.filter_owner)
        owner_stats   == calculate_owner_stats(filtered)
        sorted_owners == sort_owners(owner_stats, config.sort)
    IN  [rank \in 1..Len(sorted_owners) |->
            LET stats == DictGet(owner_stats, sorted_owners[rank])
            IN  [ rank        |-> rank,
                  owner       |-> sorted_owners[rank],
                  holder      |-> stats.display_name,
                  token_count |-> stats.token_count,
                  token_ids   |-> sorted_ids(stats.token_ids) ]]

RowLine(row) ==
    "| " \o ToString(row.rank) \o " || " \o Str(row.holder) \o " || "
         \o ToString(row.token_count) \o " || "
         \o Join([i \in 1..Len(row.token_ids) |->
                     "[[Blue Railroad Token " \o row.token_ids[i] \o "|#"
                        \o row.token_ids[i] \o "]]"], ", ")

RECURSIVE RowLines(_)
RowLines(rows) ==
    IF rows = <<>> THEN <<>>
    ELSE << "|-", RowLine(Head(rows)) >> \o RowLines(Tail(rows))

\* generate_leaderboard_content showing the number of all tokens as the total
generate_leaderboard_content_TotalOfAllTokens(tokens, config) ==
    LET filtered    == filter_tokens(tokens, config.filter_song_id, config.filter_owner)
        owner_stats == calculate_owner_stats(filtered)
    IN  Join(
          << "'''" \o config.title \o "''' tracks ownership of [[Blue Railroad]] NFT tokens." >>
          \o (IF config.description # "" THEN << "", config.description >> ELSE <<>>)
          \o (IF Truthy(config.filter_song_id)
              THEN << "", "'''Exercise:''' " \o ExerciseName(config.filter_song_id.s) >>
              ELSE <<>>)
          \o << "",
                "''This page is automatically generated. See [[PickiPedia:BlueRailroadConfig|bot configuration]] to modify.''",
                "",
                "== Statistics ==",
                "* '''Total Tokens:''' " \o ToString(Len(tokens)),
                "* '''Total Holders:''' " \o ToString(Len(owner_stats)),
                "",
                "== Leaderboard ==",
                "{| class=\"wikitable sortable\"",
                "! Rank !! Holder !! Tokens !! Token IDs" >>
          \o RowLines(LeaderboardRows(tokens, config))
          \o << "|}", "", "[[Category:Blue Railroad]]", "[[Category:Leaderboards]]" >>,
          "\n")

generate_leaderboard_content(tokens, config) ==
    LET filtered    == filter_tokens(tokens, config.filter_song_id, config.filter_owner)
        owner_stats == calculate_owner_stats(filtered)
    IN  Join(
          << "'''" \o config.title \o "''' tracks ownership of [[Blue Railroad]] NFT tokens." >>
          \o (IF config.description # "" THEN << "", config.description >> ELSE <<>>)
          \o (IF Truthy(config.filter_song_id)
              THEN << "", "'''Exercise:''' " \o ExerciseName(config.filter_song_id.s) >>
              ELSE <<>>)
          \o << "",
                "''This page is automatically generated. See [[PickiPedia:BlueRailroadConfig|bot configuration]] to modify.''",
                "",
                "== Statistics ==",
                "* '''Total Tokens:''' " \o ToString(Len(filtered)),
                "* '''Total Holders:''' " \o ToString(Len(owner_stats)),
                "",
                "== Leaderboard ==",
                "{| class=\"wikitable sortable\"",
                "! Rank !! Holder !! Tokens !! Token IDs" >>
          \o RowLines(LeaderboardRows(tokens, config))
          \o << "|}", "", "[[Category:Blue Railroad]]", "[[Category:Leaderboards]]" >>,
          "\n")

(***************************************************************************)
(* config_parser.py                                                        *)
(*                                                                         *)
(* A wikitext is a sequence of segments [tpl, body, pre]: tpl is the name  *)
(* of the template a {{...}} invocation calls ("" for other text), body    *)
(* the text between the name and the closing braces, pre whether the       *)
(* segment lies inside <pre>...</pre>.  The empty wikitext is <<>>.        *)
(***************************************************************************)
IsSpace(c) == c = " " \/ c = "\n" \/ c = "\t" \/ c = "\r"

RECURSIVE lstrip(_)
lstrip(s) ==
    IF s # "" /\ IsSpace(SubSeq(s, 1, 1)) THEN lstrip(DropPrefix(s, 1)) ELSE s

RECURSIVE rstrip(_)
rstrip(s) ==
    IF s # "" /\ IsSpace(SubSeq(s, Len(s), Len(s)))
    THEN rstrip(SubSeq(s, 1, Len(s) - 1)) ELSE s

\* str.strip()
strip(s) == rstrip(lstrip(s))

\* the index of the first occurrence of character c in s, 0 if none
Find(s, c) ==
    LET hits == {i \in 1..Len(s) : SubSeq(s, i, i) = c}
    IN  IF hits = {} THEN 0 ELSE CHOOSE i \in hits : \A j \in hits : i <= j

\* s.split(c)
RECURSIVE split(_, _)
split(s, c) ==
    IF Find(s, c) = 0 THEN <<s>>
    ELSE <<SubSeq(s, 1, Find(s, c) - 1)>> \o split(DropPrefix(s, Find(s, c)), c)

RECURSIVE ParamsFrom(_, _)
ParamsFrom(params, parts) ==
    IF parts = <<>> THEN params
    ELSE LET part == Head(parts)
             eq   == Find(part, "=")
         IN  ParamsFrom(
                IF eq # 0
                THEN DictPut(params, strip(SubSeq(part, 1, eq - 1)),
                             strip(DropPrefix(part, eq)))
                ELSE params,
                Tail(parts))

parse_template_params(param_str) == ParamsFrom(<<>>, split(param_str, "|"))

\* params.get(key, default)
ParamOr(params, key, default) ==
    IF DictHas(params, key) THEN DictGet(params, key) ELSE default

\* strip_pre_blocks
strip_pre_blocks(wikitext) == SelectSeq(wikitext, LAMBDA seg : ~seg.pre)

DefaultSource ==
    Source("Blue Railroad (Optimism)", "blueRailroads", "10",
           "0xCe09A2d0d0BDE635722D8EF31901b430E651dB52")

\* the bodies of the invocations of template tpl, in page order
TemplateBodies(text, tpl) ==
    LET segs == SelectSeq(text, LAMBDA seg : seg.tpl = tpl)
    IN  [i \in 1..Len(segs) |-> segs[i].body]

RECURSIVE SourcesFrom(_)
SourcesFrom(bodies) ==
    IF bodies = <<>> THEN <<>>
    ELSE LET params == parse_template_params(Head(bodies))
         IN  (IF params # <<>>
              THEN << Source(ParamOr(params, "name",
                                     ParamOr(params, "chain_data_key", "Unknown")),
                             ParamOr(params, "chain_data_key", "blueRailroads"),
                             ParamOr(params, "network_id", "10"),
                             ParamOr(params, "contract", "")) >>
              ELSE <<>>)
             \o SourcesFrom(Tail(bodies))

\* params.get(key) or None
ParamOrNone(params, key) ==
    IF ParamOr(params, key, "") # "" THEN PyS(DictGet(params, key)) ELSE PyNone

\* LeaderboardsFrom accepting a declaration that names no page
RECURSIVE LeaderboardsFrom_PageOptional(_)
LeaderboardsFrom_PageOptional(bodies) ==
    IF bodies = <<>> THEN <<>>
    ELSE LET params == parse_template_params(Head(bodies))
         IN  (IF params # <<>>
              THEN << LeaderboardConfig(ParamOr(params, "page", ""),
                                        ParamOr(params, "title", ""),
                                        ParamOr(params, "description", ""),
                                        ParamOrNone(params, "filter_song_id"),
                                        ParamOrNone(params, "filter_owner"),
                                        ParamOr(params, "sort", "count")) >>
              ELSE <<>>)
             \o LeaderboardsFrom_PageOptional(Tail(bodies))

RECURSIVE LeaderboardsFrom(_)
LeaderboardsFrom(bodies) ==
    IF bodies = <<>> THEN <<>>
    ELSE LET params == parse_template_params(Head(bodies))
         IN  (IF ParamOr(params, "page", "") # ""
              THEN << LeaderboardConfig(DictGet(params, "page"),
                                        ParamOr(params, "title", ""),
                                        ParamOr(params, "description", ""),
                                        ParamOrNone(params, "filter_song_id"),
                                        ParamOrNone(params, "filter_owner"),
                                        ParamOr(params, "sort", "count")) >>
              ELSE <<>>)
             \o LeaderboardsFrom(Tail(bodies))

\* parse_config_from_wikitext returning the sources as they were declared
parse_config_from_wikitext_NoInjection(wikitext) ==
    LET text         == strip_pre_blocks(wikitext)
        sources      == SourcesFrom(TemplateBodies(text, "BlueRailroadSource"))
        leaderboards == LeaderboardsFrom(TemplateBodies(text, "BlueRailroadLeaderboard"))
    IN  IF sources = <<>> /\ leaderboards = <<>>
        THEN [found |-> FALSE, sources |-> <<>>, leaderboards |-> <<>>]
        ELSE [found |-> TRUE, sources |-> sources, leaderboards |-> leaderboards]

\* The result is [found, sources, leaderboards]; found = FALSE is None.
parse_config_from_wikitext(wikitext) ==
    LET text         == strip_pre_blocks(wikitext)
        sources      == SourcesFrom(TemplateBodies(text, "BlueRailroadSource"))
        leaderboards == LeaderboardsFrom(TemplateBodies(text, "BlueRailroadLeaderboard"))
    IN  IF sources = <<>> /\ leaderboards = <<>>
        THEN [found |-> FALSE, sources |-> <<>>, leaderboards |-> <<>>]
        ELSE [found        |-> TRUE,
              sources      |-> IF sources = <<>> THEN <<DefaultSource>> ELSE sources,
              leaderboards |-> leaderboards]

get_default_config ==
    [found        |-> TRUE,
     sources      |-> <<DefaultSource>>,
     leaderboards |-> << LeaderboardConfig("Blue Railroad Leaderboard",
                                           "Blue Railroad Leaderboard",
                                           "Overall token holdings across all exercises",
                                           PyNone, PyNone, "count") >>]

(***************************************************************************)
(* wiki_client.py                                                          *)
(*                                                                         *)
(* The page store is a function from the titles of the pages that exist    *)
(* to their text.  A fault names the remote call at which the transport    *)
(* fails, if the call gets that far: "exists" (looking the page up),       *)
(* "read" (page.text()), "write" (page.save()), or "none".                 *)
(***************************************************************************)
SaveResult(page_title, action, message) ==
    [page_title |-> page_title, action |-> action, message |-> message]

NoResult == SaveResult("", "", "")

Faults == {"none", "exists", "read", "write"}

\* str(e) of the transport's exception
FailureText == "HTTP 503: service unavailable"

PagePut(pages, title, content) ==
    [t \in DOMAIN pages \cup {title} |-> IF t = title THEN content ELSE pages[t]]

\* MWClientWrapper.get_page_content: [raised, content]
MWGetPageContent(pages, title, fault) ==
    IF fault = "exists" \/ (fault = "read" /\ title \in DOMAIN pages)
    THEN [raised |-> TRUE, content |-> PyNone]
    ELSE [raised |-> FALSE,
          content |-> IF title \in DOMAIN pages THEN PyS(pages[title]) ELSE PyNone]

\* MWClientWrapper.page_exists: [raised, exists]
MWPageExists(pages, title, fault) ==
    IF fault = "exists"
    THEN [raised |-> TRUE, exists |-> FALSE]
    ELSE [raised |-> FALSE, exists |-> title \in DOMAIN pages]

\* MWSavePage without the content comparison: every call writes
MWSavePage_AlwaysWrites(pages, title, content, summary, fault) ==
    LET existed == title \in DOMAIN pages
    IN  IF fault = "exists" \/ (fault = "read" /\ existed)
        THEN [raised |-> TRUE, pages |-> pages, result |-> NoResult,
              attempted |-> FALSE]
        ELSE IF fault = "write"
        THEN [raised |-> FALSE, pages |-> pages,
              result |-> SaveResult(title, "error", FailureText),
              attempted |-> TRUE]
        ELSE [raised |-> FALSE, pages |-> PagePut(pages, title, content),
              result |-> SaveResult(title, IF existed THEN "updated" ELSE "created", ""),
              attempted |-> TRUE]

\* MWSavePage classifying every successful write as created
MWSavePage_AlwaysCreated(pages, title, content, summary, fault) ==
    LET existed == title \in DOMAIN pages
    IN  IF fault = "exists" \/ (fault = "read" /\ existed)
        THEN [raised |-> TRUE, pages |-> pages, result |-> NoResult,
              attempted |-> FALSE]
        ELSE LET current_content == IF existed THEN PyS(pages[title]) ELSE PyNone
             IN  IF current_content = PyS(content)
                 THEN [raised |-> FALSE, pages |-> pages,
                       result |-> SaveResult(title, "unchanged", "Content identical"),
                       attempted |-> FALSE]
                 ELSE IF fault = "write"
                 THEN [raised |-> FALSE, pages |-> pages,
                       result |-> SaveResult(title, "error", FailureText),
                       attempted |-> TRUE]
                 ELSE [raised |-> FALSE, pages |-> PagePut(pages, title, content),
                       result |-> SaveResult(title, "created", ""),
                       attempted |-> TRUE]

\* MWClientWrapper.save_page: [raised, pages, result, attempted]; raised says
\* that an exception left save_page, attempted that page.save() was called
MWSavePage(pages, title, content, summary, fault) ==
    LET existed == title \in DOMAIN pages
    IN  IF fault = "exists" \/ (fault = "read" /\ existed)
        THEN [raised |-> TRUE, pages |-> pages, result |-> NoResult,
              attempted |-> FALSE]
        ELSE LET current_content == IF existed THEN PyS(pages[title]) ELSE PyNone
             IN  IF current_content = PyS(content)
                 THEN [raised |-> FALSE, pages |-> pages,
                       result |-> SaveResult(title, "unchanged", "Content identical"),
                       attempted |-> FALSE]
                 ELSE IF fault = "write"
                 THEN [raised |-> FALSE, pages |-> pages,
                       result |-> SaveResult(title, "error", FailureText),
                       attempted |-> TRUE]
                 ELSE [raised |-> FALSE, pages |-> PagePut(pages, title, content),
                       result |-> SaveResult(title,
                                             IF existed THEN "updated" ELSE "created", ""),
                       attempted |-> TRUE]

\* DryRunClient.get_page_content
DryGetPageContent(existing_pages, title) ==
    IF title \in DOMAIN existing_pages THEN PyS(existing_pages[title]) ELSE PyNone

\* DryRunClient.page_exists
DryPageExists(existing_pages, title) == title \in DOMAIN existing_pages

\* DrySavePage keeping what it is given as the page's text
DrySavePage_KeepsWhatItSaved(existing_pages, saved, title, content, summary) ==
    LET existed == title \in DOMAIN existing_pages
        current == IF existed THEN PyS(existing_pages[title]) ELSE PyNone
    IN  [existing_pages |-> PagePut(existing_pages, title, content),
         saved_pages |-> Append(saved, <<title, content, summary>>),
         result |->
            IF current = PyS(content)
            THEN SaveResult(title, "unchanged", "Content identical (dry run)")
            ELSE LET action == IF existed THEN "updated" ELSE "created"
                 IN  SaveResult(title, action, action \o " (dry run)")]

\* DryRunClient.save_page: [existing_pages, saved_pages, result], the fields of
\* the client after the call and what it returns; existing_pages is not assigned
DrySavePage(existing_pages, saved, title, content, summary) ==
    LET existed == title \in DOMAIN existing_pages
        current == IF existed THEN PyS(existing_pages[title]) ELSE PyNone
    IN  [existing_pages |-> existing_pages,
         saved_pages |-> Append(saved, <<title, content, summary>>),
         result |->
            IF current = PyS(content)
            THEN SaveResult(title, "unchanged", "Content identical (dry run)")
            ELSE LET action == IF existed THEN "updated" ELSE "created"
                 IN  SaveResult(title, action, action \o " (dry run)")]

(***************************************************************************)
(* importer.py: ImportStats                                                *)
(***************************************************************************)
NewImportStats ==
    [ tokens_created |-> 0, tokens_updated |-> 0,
      tokens_unchanged |-> 0, tokens_error |-> 0,
      leaderboards_created |-> 0, leaderboards_updated |-> 0,
      leaderboards_unchanged |-> 0, leaderboards_error |-> 0,
      errors |-> <<>> ]

\* add_token_result counting an error without recording its message
add_token_result_Uncollected(st, result) ==
    CASE result.action = "created"   -> [st EXCEPT !.tokens_created = @ + 1]
      [] result.action = "updated"   -> [st EXCEPT !.tokens_updated = @ + 1]
      [] result.action = "unchanged" -> [st EXCEPT !.tokens_unchanged = @ + 1]
      [] result.action = "error"     -> [st EXCEPT !.tokens_error = @ + 1]
      [] OTHER -> st

add_token_result(st, result) ==
    CASE result.action = "created"   -> [st EXCEPT !.tokens_created = @ + 1]
      [] result.action = "updated"   -> [st EXCEPT !.tokens_updated = @ + 1]
      [] result.action = "unchanged" -> [st EXCEPT !.tokens_unchanged = @ + 1]
      [] result.action = "error"     ->
            [st EXCEPT !.tokens_error = @ + 1,
                       !.errors = Append(@, "Token " \o result.page_title \o ": "
                                            \o result.message)]
      [] OTHER -> st
\* add_leaderboard_result leaving an unchanged leaderboard uncounted
add_leaderboard_result_UnchangedUncounted(st, result) ==
    CASE result.action = "created"   -> [st EXCEPT !.leaderboards_created = @ + 1]
      [] result.action = "updated"   -> [st EXCEPT !.leaderboards_updated = @ + 1]
      [] result.action = "error"     ->
            [st EXCEPT !.leaderboards_error = @ + 1,
                       !.errors = Append(@, "Leaderboard " \o result.page_title \o ": "
                                            \o result.message)]
      [] OTHER -> st


add_leaderboard_result(st, result) ==
    CASE result.action = "created"   -> [st EXCEPT !.leaderboards_created = @ + 1]
      [] result.action = "updated"   -> [st EXCEPT !.leaderboards_updated = @ + 1]
      [] result.action = "unchanged" -> [st EXCEPT !.leaderboards_unchanged = @ + 1]
      [] result.action = "error"     ->
            [st EXCEPT !.leaderboards_error = @ + 1,
                       !.errors = Append(@, "Leaderboard " \o result.page_title \o ": "
                                            \o result.message)]
      [] OTHER -> st

(***************************************************************************)
(* importer.py: BlueRailroadImporter                                       *)
(***************************************************************************)
\* page_title of import_token
TokenPageTitle(token) == "Blue Railroad Token " \o token.token_id

\* summary of import_token, given what page_exists answered
TokenSummary(token, exists) ==
    (IF exists THEN "Updated" ELSE "Imported") \o " Blue Railroad token #"
        \o token.token_id \o " from chain data"

\* summary of generate_leaderboard
LeaderboardSummary(config) ==
    "Updated leaderboard from chain data"
        \o (IF Truthy(config.filter_song_id)
            THEN " (song_id=" \o config.filter_song_id.s \o ")" ELSE "")

\* load_config, given what get_page_content returned for the config page
\* (None, or the page's wikitext)
load_config(wiki_content) ==
    IF wiki_content.exists /\ wiki_content.text # <<>>
    THEN LET parsed == parse_config_from_wikitext(wiki_content.text)
         IN  IF parsed.found THEN parsed ELSE get_default_config
    ELSE get_default_config

\* load_tokens reading the first configured source only
load_tokens_FirstSource(chain, conf) ==
    aggregate_tokens_from_sources(chain, SubSeq(conf.sources, 1, 1))

\* load_tokens, the chain-data file being readable
load_tokens(chain, conf) == aggregate_tokens_from_sources(chain, conf.sources)

(***************************************************************************)
(* Bounds and the inputs of a run                                          *)
(***************************************************************************)
\* tokens per source in a chain-data document
MaxTokens == 2
\* consecutive runs of the importer against the same wiki
MaxRuns == 2
\* transport failures injected over the runs
MaxFaults == 1

AliceV1 == [owner |-> PyS("0xAlice"), ownerDisplay |-> PyS("alice.eth"),
            songId |-> PyS("5"), date |-> PyInt(20260113),
            uri |-> PyS("ipfs://QmV1Token1")]
BobV1   == [owner |-> PyS("0xBob"), songId |-> PyInt(6), date |-> PyInt(20260114)]
AliceV2 == [owner |-> PyS("0xAlice"), ownerDisplay |-> PyS("alice.eth"),
            songId |-> PyList(<<PyS("5")>>), blockheight |-> PyList(<<PyInt(12345678)>>),
            videoHash |-> PyS("0xabc123")]
BobV2   == [owner |-> PyS("0xBob"), ownerDisplay |-> PyS("bob.eth"),
            songId |-> PyS("6"), blockheight |-> PyInt(12345679),
            videoHash |-> PyS(ZeroHash)]

\* the entries a source's object may hold, in the order of the document
Entries(key) ==
    IF key = "blueRailroads"
    THEN << [k |-> "1", v |-> AliceV1], [k |-> "v2_1", v |-> BobV1] >>
    ELSE << [k |-> "1", v |-> AliceV2], [k |-> "5", v |-> BobV2] >>

\* the subsequences of seq with at most n elements
RECURSIVE SubSeqs(_, _)
SubSeqs(seq, n) ==
    IF seq = <<>> \/ n = 0 THEN { <<>> }
    ELSE SubSeqs(Tail(seq), n) \cup
         { <<Head(seq)>> \o rest : rest \in SubSeqs(Tail(seq), n - 1) }

SourceObjects(key) == SubSeqs(Entries(key), MaxTokens)

\* chain-data documents: each key absent, or present with an object
ChainDocs ==
    { (IF a.present THEN <<[k |-> "blueRailroads", v |-> a.obj]>> ELSE <<>>)
      \o (IF b.present THEN <<[k |-> "blueRailroads_v2", v |-> b.obj]>> ELSE <<>>) :
        a \in ({[present |-> FALSE, obj |-> <<>>]} \cup
               [present : {TRUE}, obj : SourceObjects("blueRailroads")]),
        b \in ({[present |-> FALSE, obj |-> <<>>]} \cup
               [present : {TRUE}, obj : SourceObjects("blueRailroads_v2")]) }

Tpl(tpl, body) == [tpl |-> tpl, body |-> body, pre |-> FALSE]
Pre(tpl, body) == [tpl |-> tpl, body |-> body, pre |-> TRUE]

\* contents of the configuration page
ConfigTexts ==
    { << Tpl("", "== Configuration =="),
         Tpl("BlueRailroadSource", "|name=Blue Railroad V1\n|chain_data_key=blueRailroads\n"),
         Tpl("BlueRailroadSource", "|name=Blue Railroad V2\n|chain_data_key=blueRailroads_v2\n"),
         Tpl("BlueRailroadLeaderboard",
             "|page=Blue Railroad Leaderboard\n|title=Overall Leaderboard\n|sort=count\n"),
         Tpl("BlueRailroadLeaderboard",
             "|page=Blue Railroad Squats Leaderboard\n|filter_song_id=5\n") >>,
      << Tpl("BlueRailroadSource", "|chain_data_key=blueRailroads_v2"),
         Tpl("BlueRailroadSource", "|chain_data_key=blueRailroads|network_id=10"),
         Tpl("BlueRailroadLeaderboard", "|page=Newest Holders|sort=newest|draft") >>,
      << Pre("BlueRailroadSource", "|chain_data_key=example"),
         Tpl("BlueRailroadLeaderboard", "|title=No page"),
         Tpl("BlueRailroadLeaderboard",
             "|page=Alice Board|filter_owner=0xalice|sort=oldest") >>,
      << Tpl("BlueRailroadSource", "|chain_data_key=blueRailroads_v2") >>,
      << Tpl("", "Nothing configured yet.") >>,
      << >> }

ConfigPages ==
    { [exists |-> FALSE, text |-> <<>>] } \cup [exists : {TRUE}, text : ConfigTexts]

NoPages == [t \in {} |-> ""]

\* a wiki an earlier import has written to
EarlierPages ==
    PagePut(PagePut(NoPages, "Blue Railroad Leaderboard", "(old standings)"),
            "Blue Railroad Token 1",
            generate_token_page_content(parse_token("1", AliceV1, "blueRailroads")))

CONFIG_PAGE == "PickiPedia:BlueRailroadConfig"

(***************************************************************************)
(* State                                                                   *)
(***************************************************************************)
VARIABLES
    chain_status,   \* "ok", "missing" or "unparseable": the chain-data file
    chain_data,     \* the chain-data document, when the file is ok
    config_page,    \* the configuration page of the wiki: [exists, text]
    client,         \* "mw" (MWClientWrapper) or "dry" (DryRunClient)
    pages,          \* the wiki's other pages (DryRunClient: existing_pages)
    saved_pages,    \* DryRunClient.saved_pages
    pc,             \* position of run(): "start", "load_tokens", "tokens",
                    \* "leaderboards", "done" (returned), "raised"
    exc,            \* the call the exception left run() from, "" if none
    config,         \* run's config
    all_tokens,     \* run's all_tokens
    i,              \* index of the loop run() is in
    stats,          \* run's ImportStats
    calls,          \* the save_page calls of this run that returned
    faults,         \* transport failures so far
    runs            \* what the earlier runs ended with

vars == << chain_status, chain_data, config_page, client, pages, saved_pages,
           pc, exc, config, all_tokens, i, stats, calls, faults, runs >>

inputs == << chain_status, chain_data, config_page, client >>

\* A function of the program applied on its own, outside a run: its name
\* ("none" while the importer runs), its argument and what it returned.
VARIABLES op, arg, res

fnvars == << op, arg, res >>

\* The edits other writers have made to the wiki's pages, in order.
VARIABLE edits

allvars == << vars, fnvars, edits >>

NoConfig == [found |-> FALSE, sources |-> <<>>, leaderboards |-> <<>>]

Init ==
    /\ chain_status \in {"ok", "missing", "unparseable"}
    /\ chain_data \in (IF chain_status = "ok" THEN ChainDocs ELSE { <<>> })
    /\ config_page \in ConfigPages
    /\ client \in {"mw", "dry"}
    /\ pages \in {NoPages, EarlierPages}
    /\ saved_pages = <<>>
    /\ pc = "start"
    /\ exc = ""
    /\ config = NoConfig
    /\ all_tokens = <<>>
    /\ i = 1
    /\ stats = NewImportStats
    /\ calls = <<>>
    /\ faults = 0
    /\ runs = <<>>
    /\ op = "none"
    /\ arg = <<>>
    /\ res = <<>>
    /\ edits = <<>>

(***************************************************************************)
(* The steps of run()                                                      *)
(***************************************************************************)
\* load_chain_data answering an unreadable file with an empty document
load_chain_data_Lenient(status, document) ==
    [raised |-> FALSE, chain_data |-> IF status = "ok" THEN document ELSE <<>>]

\* load_chain_data: open() and json.load() raise on a missing or malformed file
load_chain_data(status, document) ==
    [raised |-> status # "ok", chain_data |-> document]

\* whether the transport can fail at `fault` during the sync of this page
FaultOK(fault, title, content) ==
    IF fault = "none" THEN TRUE
    ELSE /\ client = "mw"
         /\ faults < MaxFaults
         /\ fault = "read" => title \in DOMAIN pages
         /\ fault = "write" =>
                (IF title \in DOMAIN pages THEN pages[title] # content ELSE TRUE)

\* self.wiki.save_page of the client in use: [raised, pages, saved_pages, result,
\* attempted]
WikiSavePage(title, content, summary, fault) ==
    IF client = "mw"
    THEN LET out == MWSavePage(pages, title, content, summary, fault)
         IN  [raised |-> out.raised, pages |-> out.pages, saved_pages |-> saved_pages,
              result |-> out.result, attempted |-> out.attempted]
    ELSE LET out == DrySavePage(pages, saved_pages, title, content, summary)
         IN  [raised |-> FALSE, pages |-> out.existing_pages,
              saved_pages |-> out.saved_pages,
              result |-> out.result, attempted |-> FALSE]

PageText(store, title) == IF title \in DOMAIN store THEN PyS(store[title]) ELSE PyNone

\* what is recorded of a save_page call that returned
Call(kind, title, content, out) ==
    [ kind |-> kind, title |-> title, content |-> content,
      before |-> PageText(pages, title), after |-> PageText(out.pages, title),
      action |-> out.result.action, message |-> out.result.message,
      attempted |-> out.attempted, wrote |-> out.pages # pages ]

\* TokenLoop of an importer that syncs the token pages in its first run only
TokenLoop_FirstRunOnly(tokens, k) ==
    IF k <= Len(tokens) /\ runs = <<>> THEN [pc |-> "tokens", i |-> k]
    ELSE [pc |-> "leaderboards", i |-> 1]

\* the loop position after the token loop has handled tokens 1..k-1
TokenLoop(tokens, k) ==
    IF k <= Len(tokens) THEN [pc |-> "tokens", i |-> k]
    ELSE [pc |-> "leaderboards", i |-> 1]

\* an exception leaves run()
Raise(from) ==
    /\ pc' = "raised"
    /\ exc' = from
    /\ UNCHANGED << pages, saved_pages, config, all_tokens, i, stats, calls >>

LoadConfig ==
    /\ pc = "start"
    /\ \E fault \in {"none", "exists", "read"} :
        /\ FaultOK(fault, CONFIG_PAGE, "")
        /\ fault = "read" => config_page.exists
        /\ faults' = faults + (IF fault = "none" THEN 0 ELSE 1)
        /\ IF fault # "none"
           THEN Raise("load_config")
           ELSE /\ config' = load_config(config_page)
                /\ pc' = "load_tokens"
                /\ UNCHANGED << exc, pages, saved_pages, all_tokens, i, stats, calls >>
    /\ UNCHANGED << inputs, runs >>

LoadTokens ==
    /\ pc = "load_tokens"
    /\ LET loaded == load_chain_data(chain_status, chain_data)
       IN  IF loaded.raised
           THEN Raise("load_chain_data")
           ELSE LET tokens == load_tokens(loaded.chain_data, config)
                IN  /\ all_tokens' = tokens
                    /\ pc' = TokenLoop(tokens, 1).pc
                    /\ i' = TokenLoop(tokens, 1).i
                    /\ UNCHANGED << exc, pages, saved_pages, config, stats, calls >>
    /\ UNCHANGED << inputs, faults, runs >>

\* one iteration of the loop over all_tokens.items(): import_token and
\* stats.add_token_result
ImportToken ==
    /\ pc = "tokens"
    /\ \E fault \in Faults \cup {"page_exists"} :
        LET token      == all_tokens[i].v
            page_title == TokenPageTitle(token)
            content    == generate_token_page_content(token)
            summary    == TokenSummary(token, page_title \in DOMAIN pages)
            out        == WikiSavePage(page_title, content, summary, fault)
        IN  /\ FaultOK(fault, page_title, content)
            /\ faults' = faults + (IF fault = "none" THEN 0 ELSE 1)
            /\ IF fault = "page_exists" THEN Raise("page_exists")
               ELSE IF out.raised THEN Raise("save_page")
               ELSE /\ pages' = out.pages
                    /\ saved_pages' = out.saved_pages
                    /\ stats' = add_token_result(stats, out.result)
                    /\ calls' = Append(calls, Call("token", page_title, content, out))
                    /\ pc' = TokenLoop(all_tokens, i + 1).pc
                    /\ i' = TokenLoop(all_tokens, i + 1).i
                    /\ UNCHANGED << exc, config, all_tokens >>
    /\ UNCHANGED << inputs, runs >>

\* one iteration of the loop over config.leaderboards: generate_leaderboard and
\* stats.add_leaderboard_result
GenerateLeaderboard ==
    /\ pc = "leaderboards"
    /\ i <= Len(config.leaderboards)
    /\ \E fault \in Faults :
        LET lb_config == config.leaderboards[i]
            content   == generate_leaderboard_content(all_tokens, lb_config)
            out       == WikiSavePage(lb_config.page, content,
                                      LeaderboardSummary(lb_config), fault)
        IN  /\ FaultOK(fault, lb_config.page, content)
            /\ faults' = faults + (IF fault = "none" THEN 0 ELSE 1)
            /\ IF out.raised THEN Raise("save_page")
               ELSE /\ pages' = out.pages
                    /\ saved_pages' = out.saved_pages
                    /\ stats' = add_leaderboard_result(stats, out.result)
                    /\ calls' = Append(calls, Call("leaderboard", lb_config.page,
                                                   content, out))
                    /\ i' = i + 1
                    /\ UNCHANGED << pc, exc, config, all_tokens >>
    /\ UNCHANGED << inputs, runs >>

\* return stats
Return ==
    /\ pc = "leaderboards"
    /\ i > Len(config.leaderboards)
    /\ pc' = "done"
    /\ UNCHANGED << inputs, pages, saved_pages, exc, config, all_tokens, i, stats,
                    calls, faults, runs >>

\* The importer is run again on the same chain-data file against the same
\* wiki, with a client of the same kind made anew.
NextRun ==
    /\ pc \in {"done", "raised"}
    /\ Len(runs) + 1 < MaxRuns
    /\ runs' = Append(runs, [pc |-> pc, exc |-> exc, stats |-> stats, calls |-> calls])
    /\ pc' = "start"
    /\ exc' = ""
    /\ config' = NoConfig
    /\ all_tokens' = <<>>
    /\ i' = 1
    /\ stats' = NewImportStats
    /\ calls' = <<>>
    /\ saved_pages' = <<>>
    /\ UNCHANGED << inputs, pages, faults >>

Next ==
    /\ \/ LoadConfig
       \/ LoadTokens
       \/ ImportToken
       \/ GenerateLeaderboard
       \/ Return
       \/ NextRun
    /\ UNCHANGED << fnvars, edits >>

Spec == Init /\ [][Next]_allvars

(***************************************************************************)
(* podcast-episodes.py: extract_guest                                      *)
(*                                                                         *)
(* A pattern is [pattern, skip]; its regular expression is one of a family *)
(* given as [lit, groups]: the literal lit followed by nothing when groups *)
(* is empty, by one named group taking the rest of the title when groups   *)
(* has one name, and by a first group without colons, a colon, a space and *)
(* a second group taking the rest when groups has two names.               *)
(***************************************************************************)
NoMatch == [matched |-> FALSE, groups |-> <<>>]

\* re.match(regex, title): whether it matched, and m.groupdict()
Match(regex, title) ==
    IF ~StartsWith(title, regex.lit) THEN NoMatch
    ELSE LET rest == DropPrefix(title, Len(regex.lit))
             c    == Find(rest, ":")
         IN  IF Len(regex.groups) = 0
             THEN [matched |-> TRUE, groups |-> <<>>]
             ELSE IF Len(regex.groups) = 1
             THEN [matched |-> TRUE, groups |-> <<[k |-> regex.groups[1], v |-> rest]>>]
             ELSE IF c # 0 /\ c < Len(rest) /\ SubSeq(rest, c + 1, c + 1) = " "
             THEN [matched |-> TRUE,
                   groups  |-> DictPut(<<[k |-> regex.groups[1],
                                          v |-> SubSeq(rest, 1, c - 1)]>>,
                                       regex.groups[2], DropPrefix(rest, c + 1))]
             ELSE NoMatch

\* the first index from at on that holds no whitespace, Len(s) + 1 if none
RECURSIVE SkipSpaces(_, _)
SkipSpaces(s, at) ==
    IF at <= Len(s) /\ IsSpace(SubSeq(s, at, at)) THEN SkipSpaces(s, at + 1) ELSE at

\* where a separator (whitespace, then & or and, then whitespace) that starts
\* at index at ends (the index after it), 0 if there is none
SepEnd(s, at) ==
    LET j == SkipSpaces(s, at)
    IN  IF j <= Len(s) /\ SubSeq(s, j, j) = "&" THEN SkipSpaces(s, j + 1)
        ELSE IF j + 2 <= Len(s) /\ SubSeq(s, j, j + 2) = "and" THEN SkipSpaces(s, j + 3)
        ELSE 0

\* re.split on that separator, the piece in progress starting at start
RECURSIVE SplitFrom(_, _, _)
SplitFrom(s, start, at) ==
    IF at > Len(s) THEN << SubSeq(s, start, Len(s)) >>
    ELSE IF SepEnd(s, at) # 0
    THEN << SubSeq(s, start, at - 1) >> \o SplitFrom(s, SepEnd(s, at), SepEnd(s, at))
    ELSE SplitFrom(s, start, at + 1)

re_split(s) == SplitFrom(s, 1, 1)

\* len(s.split())
WordCount(s) ==
    Cardinality({j \in 1..Len(s) :
        /\ ~IsSpace(SubSeq(s, j, j))
        /\ j = 1 \/ IsSpace(SubSeq(s, j - 1, j - 1))})

\* the guests the groups of a match give
GuestsOf(groups) ==
    LET guest == strip(DictGet(groups, "guest"))
        parts == re_split(guest)
    IN  (IF DictHas(groups, "guest") /\ DictGet(groups, "guest") # ""
         THEN IF Len(parts) > 1 /\ \A q \in 1..Len(parts) : WordCount(strip(parts[q])) >= 2
              THEN [q \in 1..Len(parts) |-> strip(parts[q])]
              ELSE << guest >>
         ELSE <<>>)
        \o (IF DictHas(groups, "feat") /\ DictGet(groups, "feat") # ""
            THEN << strip(DictGet(groups, "feat")) >>
            ELSE <<>>)

\* extract_guest letting a matching skip pattern win wherever it stands
RECURSIVE extract_guest_SkipWins(_, _)
extract_guest_SkipWins(title, patterns_for_podcast) ==
    IF \E q \in 1..Len(patterns_for_podcast) :
          /\ patterns_for_podcast[q].skip
          /\ Match(patterns_for_podcast[q].pattern, title).matched
    THEN [guests |-> <<>>, skip |-> TRUE]
    ELSE IF patterns_for_podcast = <<>> THEN [guests |-> <<>>, skip |-> FALSE]
    ELSE LET m == Match(Head(patterns_for_podcast).pattern, title)
         IN  IF m.matched THEN [guests |-> GuestsOf(m.groups), skip |-> FALSE]
             ELSE extract_guest_SkipWins(title, Tail(patterns_for_podcast))

\* extract_guest: (guests, should_skip)
RECURSIVE extract_guest(_, _)
extract_guest(title, patterns_for_podcast) ==
    IF patterns_for_podcast = <<>> THEN [guests |-> <<>>, skip |-> FALSE]
    ELSE LET p == Head(patterns_for_podcast)
             m == Match(p.pattern, title)
         IN  IF m.matched
             THEN IF p.skip THEN [guests |-> <<>>, skip |-> TRUE]
                  ELSE [guests |-> GuestsOf(m.groups), skip |-> FALSE]
             ELSE extract_guest(title, Tail(patterns_for_podcast))

(***************************************************************************)
(* The functions of the program applied on their own                       *)
(***************************************************************************)
\* a field the JSON object does not have
Absent == [t |-> "absent"]

\* the JSON object with the fields of r that are not Absent
MakeData(r) == [f \in {g \in DOMAIN r : r[g] # Absent} |-> r[f]]

\* a raw value, the one-element list of it, and the empty list
Wrapped(scalars) == scalars \cup {PyList(<<v>>) : v \in scalars} \cup {PyList(<<>>)}

\* token objects of a chain-data document
TokenDatas ==
    { MakeData(r) : r \in
        [ songId       : {Absent} \cup Wrapped({PyNone, PyS("5"), PyS("0"), PyS(""),
                                                PyInt(0), PyInt(5)}),
          date         : {Absent} \cup Wrapped({PyNone, PyInt(20260113), PyInt(0)}),
          blockheight  : {Absent} \cup Wrapped({PyInt(12345678)}),
          owner        : {Absent, PyS("0xAlice"), PyList(<<PyS("0xAlice")>>)},
          ownerDisplay : {Absent, PyList(<<PyS("alice.eth")>>)},
          uri          : {Absent, PyList(<<PyS("ipfs://QmV1Token1")>>)},
          videoHash    : {Absent, PyList(<<PyS("0xabc123")>>)} ] }

\* no run is in progress
NoRun ==
    /\ chain_status = "ok"
    /\ chain_data = <<>>
    /\ config_page = [exists |-> FALSE, text |-> <<>>]
    /\ client = "dry"
    /\ pages = NoPages
    /\ saved_pages = <<>>
    /\ pc = "start"
    /\ exc = ""
    /\ config = NoConfig
    /\ all_tokens = <<>>
    /\ i = 1
    /\ stats = NewImportStats
    /\ calls = <<>>
    /\ faults = 0
    /\ runs = <<>>

FnInit ==
    /\ NoRun
    /\ op = "none"
    /\ arg = <<>>
    /\ res = <<>>
    /\ edits = <<>>

\* parse_token(token_id, token_data, source_key)
ParseToken ==
    /\ op = "none"
    /\ \E token_data \in TokenDatas :
        /\ op' = "parse_token"
        /\ arg' = [token_id |-> "1", token_data |-> token_data,
                   source_key |-> "blueRailroads"]
        /\ res' = parse_token("1", token_data, "blueRailroads")

\* segments a configuration page is made of
MaxSegments == 2

Segments ==
    { Tpl("", "See the bot's documentation."),
      Tpl("BlueRailroadSource", "|chain_data_key=blueRailroads_v2"),
      Tpl("BlueRailroadSource", "|draft"),
      Pre("BlueRailroadSource", "|chain_data_key=example"),
      Tpl("BlueRailroadLeaderboard", "|page=Board|sort=newest|draft"),
      Tpl("BlueRailroadLeaderboard", "|title=No page|page= "),
      Tpl("BlueRailroadLeaderboard", "|page|sort=oldest"),
      Pre("BlueRailroadLeaderboard", "|page=Example Board") }

\* the sequences of at most n elements of S
RECURSIVE SeqsUpTo(_, _)
SeqsUpTo(S, n) ==
    IF n = 0 THEN { <<>> }
    ELSE SeqsUpTo(S, n - 1) \cup
         { Append(t, x) : t \in SeqsUpTo(S, n - 1), x \in S }

Wikitexts == ConfigTexts \cup SeqsUpTo(Segments, MaxSegments)

\* parse_config_from_wikitext(wikitext)
ParseConfig ==
    /\ op = "none"
    /\ \E wikitext \in Wikitexts :
        /\ op' = "parse_config_from_wikitext"
        /\ arg' = wikitext
        /\ res' = parse_config_from_wikitext(wikitext)

\* tokens of both schemas with the video hashes and uris a dump may carry
CidTokens ==
    { [ token_id |-> "1", source_key |-> "blueRailroads",
        owner |-> PyS("0xAlice"), owner_display |-> PyS("alice.eth"),
        song_id |-> PyS("5"), date |-> PyNone,
        uri |-> uri, blockheight |-> blockheight, video_hash |-> video_hash ] :
        blockheight \in {PyNone, PyInt(0), PyInt(12345678)},
        video_hash \in {PyNone, PyS(""), PyS("0x"), PyS("0xabc123"), PyS("abc123"),
                        PyS(ZeroHash)},
        uri \in {PyNone, PyS(""), PyS("ipfs://"), PyS("ipfs://QmV1Token1"),
                 PyS("IPFS://QmV1Token1"), PyS("https://example.org/v")} }

\* token.ipfs_cid and generate_token_page_content(token)
IpfsCid ==
    /\ op = "none"
    /\ \E token \in CidTokens :
        /\ op' = "ipfs_cid"
        /\ arg' = token
        /\ res' = [cid |-> ipfs_cid(token), page |-> generate_token_page_content(token)]

\* add_token calls made on one OwnerStats
MaxCalls == 3

\* the dates add_token is passed: None or an integer
TokenDates == {PyNone, PyInt(0), PyInt(-5), PyInt(3), PyInt(7)}

\* stats.add_token(token_id, date) on an OwnerStats that is new at the first
\* call; arg lists the calls made so far
AddToken ==
    /\ op \in {"none", "add_token"}
    /\ Len(arg) < MaxCalls
    /\ \E token_id \in {"1", "2"}, date \in TokenDates :
        /\ op' = "add_token"
        /\ arg' = Append(arg, [token_id |-> token_id, date |-> date])
        /\ res' = add_token(IF op = "none"
                            THEN NewOwnerStats(PyS("0xAlice"), PyS("alice.eth"))
                            ELSE res,
                            token_id, date)

\* patterns in a podcast's list
MaxPatterns == 2

Pattern(lit, groups, skip) ==
    [pattern |-> [lit |-> lit, groups |-> groups], skip |-> skip]

Patterns ==
    { Pattern("Mini Jam", <<>>, TRUE),
      Pattern("Ep ", <<>>, FALSE),
      Pattern("Ep 2: ", <<"guest">>, FALSE),
      Pattern("Bonus: ", <<"guest">>, FALSE),
      Pattern("", <<"guest", "feat">>, FALSE),
      Pattern("", <<"guest">>, FALSE),
      Pattern("", <<"guest">>, TRUE) }

EpisodeTitles ==
    { "Ep 1: Molly Tuttle",
      "Ep 2: Billy Strings & Bryan Sutton",
      "Ep 2: Flatt and Scruggs",
      "Mini Jam 42 - Salt Creek",
      "Bonus: ",
      "Sandy Rothman live" }

\* extract_guest(title, patterns_for_podcast)
ExtractGuest ==
    /\ op = "none"
    /\ \E title \in EpisodeTitles, patterns \in SeqsUpTo(Patterns, MaxPatterns) :
        /\ op' = "extract_guest"
        /\ arg' = [title |-> title, patterns |-> patterns]
        /\ res' = extract_guest(title, patterns)

\* tokens in a mapping given to the leaderboard functions
MaxBoardTokens == 3

\* an entry of the aggregated mapping: Token(...) under its key
BoardToken(token_id, owner, owner_display, song_id, date, blockheight) ==
    [ k |-> "blueRailroads_" \o token_id,
      v |-> [ token_id |-> token_id, source_key |-> "blueRailroads",
              owner |-> PyS(owner), owner_display |-> PyS(owner_display),
              song_id |-> song_id, date |-> date, uri |-> PyNone,
              blockheight |-> blockheight, video_hash |-> PyNone ] ]

\* entries with owners that differ in letter case only, an empty owner, a
\* changed display name, ids that are not numbers or have the same numeric
\* value, and tokens with equal dates or none
BoardTokens ==
    { BoardToken("2", "0xAlice", "alice.eth", PyS("5"), PyInt(100), PyNone),
      BoardToken("10", "0xAlice", "Alice (renamed)", PyS("6"), PyNone, PyInt(300)),
      BoardToken("abc", "0xAlice", "alice.eth", PyS("5"), PyInt(50), PyNone),
      BoardToken("0", "0xAlice", "alice.eth", PyNone, PyNone, PyNone),
      BoardToken("07", "0xBob", "bob.eth", PyS("5"), PyNone, PyNone),
      BoardToken("7", "0xBob", "bob.eth", PyS("6"), PyInt(100), PyNone),
      BoardToken("3", "", "", PyS("5"), PyInt(150), PyNone),
      BoardToken("1", "0xalice", "alice (lower case)", PyS("5"), PyInt(100), PyNone) }

\* the mappings of at most n entries of S, in every insertion order
RECURSIVE Mappings(_, _)
Mappings(S, n) ==
    IF n = 0 THEN { <<>> }
    ELSE Mappings(S, n - 1) \cup
         UNION { { Append(d, e) : e \in {x \in S : \A j \in 1..Len(d) : d[j].k # x.k} } :
                 d \in Mappings(S, n - 1) }

BoardConfigs ==
    { LeaderboardConfig("Board", "", "", filter_song_id, filter_owner, sort) :
        filter_song_id \in {PyNone, PyS("5")},
        filter_owner \in {PyNone, PyS("0XALICE")},
        sort \in {"count", "newest", "oldest"} }

\* generate_leaderboard_content(tokens, config), with what its steps return
Leaderboard ==
    /\ op = "none"
    /\ \E tokens \in Mappings(BoardTokens, MaxBoardTokens), lb_config \in BoardConfigs :
        LET filtered    == filter_tokens(tokens, lb_config.filter_song_id,
                                         lb_config.filter_owner)
            owner_stats == calculate_owner_stats(filtered)
        IN  /\ op' = "generate_leaderboard_content"
            /\ arg' = [tokens |-> tokens, config |-> lb_config]
            /\ res' = [ filtered      |-> filtered,
                        owner_stats   |-> owner_stats,
                        sorted_owners |-> sort_owners(owner_stats, lb_config.sort),
                        rows          |-> LeaderboardRows(tokens, lb_config),
                        content       |-> generate_leaderboard_content(tokens, lb_config) ]

FnNext ==
    /\ \/ ParseToken
       \/ ParseConfig
       \/ IpfsCid
       \/ AddToken
       \/ ExtractGuest
       \/ Leaderboard
    /\ UNCHANGED << vars, edits >>

FnSpec == FnInit /\ [][FnNext]_allvars

(***************************************************************************)
(* save_page on a wiki that other writers edit too                         *)
(*                                                                         *)
(* MWClientWrapper.save_page reads the page (existed, current_content) and *)
(* writes it in separate requests; another writer's edit can reach the     *)
(* wiki between the two.  op is "save_page" from the call's start on, arg  *)
(* holds its arguments and what it read, res is NoResult until it returns. *)
(***************************************************************************)
\* save_page calls made on one client
MaxSaves == 2
\* edits by other writers
MaxEdits == 1

SyncTitles == {"Blue Railroad Token 1", "Blue Railroad Leaderboard"}

SyncContents == {EarlierPages[t] : t \in DOMAIN EarlierPages} \cup {"(new standings)"}

\* what another writer puts on a page
HandEdit == "(edited by hand)"

\* save_page comparing the page with what it read before it writes
MWSaveAfterRead_DetectsConflict(store, title, content, summary, existed, current_content, fault) ==
    IF current_content = PyS(content)
    THEN [pages |-> store,
          result |-> SaveResult(title, "unchanged", "Content identical")]
    ELSE IF fault = "write"
    THEN [pages |-> store, result |-> SaveResult(title, "error", FailureText)]
    ELSE IF (IF title \in DOMAIN store THEN PyS(store[title]) ELSE PyNone)
               # current_content
    THEN [pages |-> store, result |-> SaveResult(title, "error", "edit conflict")]
    ELSE [pages |-> PagePut(store, title, content),
          result |-> SaveResult(title, IF existed THEN "updated" ELSE "created", "")]

\* MWClientWrapper.save_page from the comparison on, with the existed and
\* current_content it read earlier: [pages, result]
MWSaveAfterRead(store, title, content, summary, existed, current_content, fault) ==
    IF current_content = PyS(content)
    THEN [pages |-> store,
          result |-> SaveResult(title, "unchanged", "Content identical")]
    ELSE IF fault = "write"
    THEN [pages |-> store, result |-> SaveResult(title, "error", FailureText)]
    ELSE [pages |-> PagePut(store, title, content),
          result |-> SaveResult(title, IF existed THEN "updated" ELSE "created", "")]

SyncInit ==
    /\ chain_status = "ok"
    /\ chain_data = <<>>
    /\ config_page = [exists |-> FALSE, text |-> <<>>]
    /\ client \in {"mw", "dry"}
    /\ pages \in {NoPages, EarlierPages}
    /\ saved_pages = <<>>
    /\ pc = "start"
    /\ exc = ""
    /\ config = NoConfig
    /\ all_tokens = <<>>
    /\ i = 1
    /\ stats = NewImportStats
    /\ calls = <<>>
    /\ faults = 0
    /\ runs = <<>>
    /\ op = "none"
    /\ arg = <<>>
    /\ res = <<>>
    /\ edits = <<>>

\* what the importer's run does not touch while save_page is called directly
NoRunVars == << chain_status, chain_data, config_page, client, pc, exc, config,
                all_tokens, i, stats, runs >>

\* a save_page call has read the page and not returned yet
InProgress == op = "save_page" /\ res = NoResult

\* a save_page call that returned: its arguments, what it read, what the page
\* held when the call went on to compare and write, and what it holds after
SyncCall(out, fault) ==
    [ title |-> arg.title, content |-> arg.content,
      read |-> arg.current_content, found |-> PageText(pages, arg.title),
      after |-> PageText(out.pages, arg.title),
      action |-> out.result.action, fault |-> fault ]

\* MWClientWrapper.save_page: page = self.site.pages[title], page.exists and
\* page.text()
SaveRead ==
    /\ client = "mw"
    /\ ~InProgress
    /\ Len(calls) < MaxSaves
    /\ \E title \in SyncTitles, content \in SyncContents :
        /\ op' = "save_page"
        /\ arg' = [ title |-> title, content |-> content, summary |-> "Import",
                    existed |-> title \in DOMAIN pages,
                    current_content |-> PageText(pages, title) ]
        /\ res' = NoResult
    /\ UNCHANGED << NoRunVars, pages, saved_pages, calls, faults, edits >>

\* MWClientWrapper.save_page: the comparison, page.save() and the return
SaveWrite ==
    /\ client = "mw"
    /\ InProgress
    /\ \E fault \in {"none", "write"} :
        LET out == MWSaveAfterRead(pages, arg.title, arg.content, arg.summary,
                                   arg.existed, arg.current_content, fault)
        IN  /\ fault = "write" =>
                  (faults < MaxFaults /\ arg.current_content # PyS(arg.content))
            /\ faults' = faults + (IF fault = "none" THEN 0 ELSE 1)
            /\ pages' = out.pages
            /\ res' = out.result
            /\ calls' = Append(calls, SyncCall(out, fault))
    /\ UNCHANGED << NoRunVars, saved_pages, op, arg, edits >>

\* another writer saves a page of the wiki
ExternalEdit ==
    /\ client = "mw"
    /\ Len(edits) < MaxEdits
    /\ \E title \in SyncTitles :
        /\ pages' = PagePut(pages, title, HandEdit)
        /\ edits' = Append(edits, [title |-> title, text |-> HandEdit])
    /\ UNCHANGED << NoRunVars, saved_pages, calls, faults, op, arg, res >>

\* DryRunClient.save_page, from call to return
DrySave ==
    /\ client = "dry"
    /\ Len(calls) < MaxSaves
    /\ \E title \in SyncTitles, content \in SyncContents :
        LET out == DrySavePage(pages, saved_pages, title, content, "Import")
        IN  /\ op' = "save_page"
            /\ arg' = [ title |-> title, content |-> content, summary |-> "Import",
                        existed |-> title \in DOMAIN pages,
                        current_content |-> PageText(pages, title) ]
            /\ res' = out.result
            /\ pages' = out.existing_pages
            /\ saved_pages' = out.saved_pages
            /\ calls' = Append(calls,
                   [ title |-> title, content |-> content,
                     read |-> PageText(pages, title), found |-> PageText(pages, title),
                     after |-> PageText(out.existing_pages, title),
                     action |-> out.result.action, fault |-> "none" ])
    /\ UNCHANGED << NoRunVars, faults, edits >>

SyncNext ==
    \/ SaveRead
    \/ SaveWrite
    \/ ExternalEdit
    \/ DrySave

SyncSpec == SyncInit /\ [][SyncNext]_allvars

(***************************************************************************)
(* Properties                                                              *)
(***************************************************************************)
CallSet == {calls[j] : j \in 1..Len(calls)}

\* the run in progress and the one before it met no transport failure
CleanRerun ==
    /\ client = "mw"
    /\ Len(runs) >= 1
    /\ runs[Len(runs)].pc = "done"
    /\ runs[Len(runs)].stats.errors = <<>>
    /\ stats.errors = <<>>

\* C1: a second run over the same chain data and configuration, against the
\* wiki as the first run left it, creates and updates nothing: every token
\* page and every leaderboard page is unchanged.
C1_SecondRunChangesNothing ==
    (CleanRerun /\ pc = "done") =>
        /\ stats.tokens_created = 0
        /\ stats.tokens_updated = 0
        /\ stats.leaderboards_created = 0
        /\ stats.leaderboards_updated = 0
        /\ \A c \in CallSet : c.action = "unchanged"

\* C2: a save_page call whose content equals the page's current text returns
\* unchanged and writes nothing; a call for a page that does not exist never
\* returns unchanged.
C2_IdenticalContentIsNotWritten ==
    \A c \in CallSet :
        /\ c.before = PyS(c.content) =>
              c.action = "unchanged" /\ ~c.wrote /\ ~c.attempted /\ c.after = c.before
        /\ c.before = PyNone => c.action # "unchanged"

\* reached: one run met a page holding exactly the generated text and a page
\* that did not exist
C2_Witness ==
    /\ \E c \in CallSet : c.before = PyS(c.content) /\ c.action = "unchanged"
    /\ \E c \in CallSet : c.before = PyNone /\ c.action = "created"

\* C3: when the content differs and the write does not fail, the action is
\* created for a page that did not exist and updated for one that did; created
\* and updated follow a write that was attempted and took effect (with the
\* DryRunClient, the recorded call); every call returns exactly one of the four
\* actions.
C3_CreatedOrUpdatedByExistence ==
    \A c \in CallSet :
        /\ c.action \in {"created", "updated", "unchanged", "error"}
        /\ (c.before # PyS(c.content) /\ c.action # "error") =>
              c.action = (IF c.before = PyNone THEN "created" ELSE "updated")
        /\ c.action \in {"created", "updated"} =>
              /\ c.before # PyS(c.content)
              /\ client = "mw" => (c.attempted /\ c.wrote /\ c.after = PyS(c.content))
              /\ client = "dry" =>
                    \E k \in 1..Len(saved_pages) :
                        saved_pages[k][1] = c.title /\ saved_pages[k][2] = c.content
        /\ c.action = "error" => (c.attempted /\ ~c.wrote)

\* reached: one run of the MediaWiki client created a page, updated another
\* and failed to write a third
C3_Witness ==
    /\ client = "mw"
    /\ \E c \in CallSet : c.action = "created" /\ c.before = PyNone
    /\ \E c \in CallSet : c.action = "updated" /\ c.before # PyNone
    /\ \E c \in CallSet : c.action = "error"

\* C4: no transport failure during the sync of a page makes an exception
\* leave save_page; each ends in a SaveResult with action error.
C4_SavePageNeverRaises == exc # "save_page"

\* the error strings the calls of a run account for, in call order
RECURSIVE ErrorsOf(_)
ErrorsOf(cs) ==
    IF cs = <<>> THEN <<>>
    ELSE (IF Head(cs).action = "error"
          THEN << (IF Head(cs).kind = "token" THEN "Token " ELSE "Leaderboard ")
                     \o Head(cs).title \o ": " \o Head(cs).message >>
          ELSE <<>>)
         \o ErrorsOf(Tail(cs))

ErrorCount(kind) ==
    Cardinality({j \in 1..Len(calls) : calls[j].kind = kind /\ calls[j].action = "error"})

\* the titles run() syncs, in order: one per token, then one per leaderboard
PlannedTitles ==
    [j \in 1..Len(all_tokens) |-> TokenPageTitle(all_tokens[j].v)]
    \o [j \in 1..Len(config.leaderboards) |-> config.leaderboards[j].page]

\* C5: a page whose write fails is counted as an error and adds exactly one
\* string, naming the page and the failure, to the errors list; the run goes on
\* to the remaining token pages and to every leaderboard, each page being
\* synced once.
C5_FailedWriteIsCountedAndRunGoesOn ==
    /\ [](/\ stats.errors = ErrorsOf(calls)
          /\ stats.tokens_error = ErrorCount("token")
          /\ stats.leaderboards_error = ErrorCount("leaderboard")
          /\ \A c \in CallSet : c.action = "error" => c.message = FailureText
          /\ pc \in {"tokens", "leaderboards", "done"} =>
                \A j \in 1..Len(calls) : calls[j].title = PlannedTitles[j]
          /\ pc = "done" => Len(calls) = Len(PlannedTitles))
    /\ [][(Len(calls') = Len(calls) + 1 /\ calls'[Len(calls')].action = "error")
            => (pc' \in {"tokens", "leaderboards"} /\ exc' = "")]_vars

\* reached: a run returned after the write of its first page failed and two
\* more pages were synced
C5_Witness ==
    /\ pc = "done"
    /\ Len(calls) >= 3
    /\ calls[1].action = "error"
    /\ Len(stats.errors) = 1

\* C6: a transport failure while reading the configuration page does not end
\* the run: load_config falls back to the default configuration.
C6_ConfigReadFailureFallsBack == exc # "load_config"

\* C7: with the chain-data file missing or unparseable the run ends in a
\* failure and no save_page call happens: nothing is written or recorded.
C7_BadChainDataFailsBeforeAnyPage ==
    chain_status # "ok" =>
        /\ pc \in {"start", "load_tokens", "raised"}
        /\ pc = "raised" => exc \in {"load_config", "load_chain_data"}
        /\ calls = <<>>
        /\ saved_pages = <<>>
        /\ pages \in {NoPages, EarlierPages}
        /\ \A r \in 1..Len(runs) : runs[r].pc = "raised" /\ runs[r].calls = <<>>

\* reached: load_chain_data raised out of run() after the configuration was
\* loaded
C7_Witness ==
    /\ chain_status # "ok"
    /\ pc = "raised"
    /\ exc = "load_chain_data"
    /\ config.found

\* run() holds the aggregated mapping
Aggregated == pc \in {"tokens", "leaderboards", "done"}

\* the object the document holds for a configured source
SourceObject(key) == IF DictHas(chain_data, key) THEN DictGet(chain_data, key) ELSE <<>>

\* C8: two tokens with the same tokenId in two different configured sources
\* are two entries of the aggregated mapping, each under its own key
\* chainDataKey_tokenId with its own owner and fields.
C8_SameTokenIdStaysDistinct ==
    Aggregated =>
        \A a, b \in 1..Len(config.sources) :
            LET ka == config.sources[a].chain_data_key
                kb == config.sources[b].chain_data_key
            IN  ka # kb =>
                  \A x \in 1..Len(SourceObject(ka)), y \in 1..Len(SourceObject(kb)) :
                      LET ex == SourceObject(ka)[x]
                          ey == SourceObject(kb)[y]
                      IN  ex.k = ey.k =>
                            /\ (ka \o "_" \o ex.k) # (kb \o "_" \o ey.k)
                            /\ DictHas(all_tokens, ka \o "_" \o ex.k)
                            /\ DictHas(all_tokens, kb \o "_" \o ey.k)
                            /\ DictGet(all_tokens, ka \o "_" \o ex.k)
                                  = parse_token(ex.k, ex.v, ka)
                            /\ DictGet(all_tokens, kb \o "_" \o ey.k)
                                  = parse_token(ey.k, ey.v, kb)

\* the tokens of all configured sources, one per (source, tokenId)
UnionTokens ==
    UNION { { iter_tokens_from_source(chain_data, config.sources[s])[n] :
                n \in 1..Len(iter_tokens_from_source(chain_data, config.sources[s])) } :
            s \in 1..Len(config.sources) }

\* C9: in every leaderboard an owner has one row whose token count is the
\* number of that owner's tokens, over the union of all configured sources,
\* that pass the leaderboard's filters; an owner with no such token has no row.
C9_RowCountsTokensOfAllSources ==
    Aggregated =>
        \A j \in 1..Len(config.leaderboards) :
            LET lb   == config.leaderboards[j]
                rows == LeaderboardRows(all_tokens, lb)
            IN  \A o \in {t.owner : t \in UnionTokens} :
                    LET n == Cardinality({t \in UnionTokens :
                                 /\ t.owner = o
                                 /\ PassesFilters(t, lb.filter_song_id, lb.filter_owner)})
                        mine == {r \in 1..Len(rows) : rows[r].owner = o}
                    IN  Truthy(o) =>
                          /\ Cardinality(mine) = (IF n > 0 THEN 1 ELSE 0)
                          /\ \A r \in mine : rows[r].token_count = n

\* C10: the mapping is aggregated from all configured sources before the first
\* save_page call; the token pages' calls, one per entry of the mapping in its
\* order, precede the leaderboards' calls; every leaderboard is generated from
\* the whole mapping.
C10_AggregateThenTokensThenLeaderboards ==
    LET merged == aggregate_tokens_from_sources(chain_data, config.sources)
    IN  /\ calls # <<>> => all_tokens = merged
        /\ \A j \in 1..Len(calls) :
              IF j <= Len(merged)
              THEN /\ calls[j].kind = "token"
                   /\ calls[j].content = generate_token_page_content(merged[j].v)
              ELSE /\ calls[j].kind = "leaderboard"
                   /\ j - Len(merged) <= Len(config.leaderboards)
                   /\ calls[j].title = config.leaderboards[j - Len(merged)].page
                   /\ calls[j].content =
                        generate_leaderboard_content(merged,
                            config.leaderboards[j - Len(merged)])

\* reached: a run returned having synced token pages of two sources and then a
\* leaderboard
C10_Witness ==
    /\ pc = "done"
    /\ \E a, b \in 1..Len(all_tokens) :
          /\ all_tokens[a].v.source_key # all_tokens[b].v.source_key
          /\ a < b
    /\ Len(calls) > Len(all_tokens)
    /\ calls[1].kind = "token"
    /\ calls[Len(calls)].kind = "leaderboard"

\* the number of this run's calls of a kind that returned an action
CallCount(kind, action) ==
    Cardinality({j \in 1..Len(calls) : calls[j].kind = kind /\ calls[j].action = action})

TokenCounterSum ==
    stats.tokens_created + stats.tokens_updated
        + stats.tokens_unchanged + stats.tokens_error

LeaderboardCounterSum ==
    stats.leaderboards_created + stats.leaderboards_updated
        + stats.leaderboards_unchanged + stats.leaderboards_error

\* C11: every SaveResult increments exactly one counter, the one of its kind
\* and action; when run returns the token counters sum to the number of
\* entries of the aggregated mapping, the leaderboard counters to the number
\* of configured leaderboards, and the errors list has tokens_error +
\* leaderboards_error entries.
C11_CountersAccountForEveryResult ==
    /\ stats.tokens_created = CallCount("token", "created")
    /\ stats.tokens_updated = CallCount("token", "updated")
    /\ stats.tokens_unchanged = CallCount("token", "unchanged")
    /\ stats.tokens_error = CallCount("token", "error")
    /\ stats.leaderboards_created = CallCount("leaderboard", "created")
    /\ stats.leaderboards_updated = CallCount("leaderboard", "updated")
    /\ stats.leaderboards_unchanged = CallCount("leaderboard", "unchanged")
    /\ stats.leaderboards_error = CallCount("leaderboard", "error")
    /\ TokenCounterSum + LeaderboardCounterSum = Len(calls)
    /\ Len(stats.errors) = stats.tokens_error + stats.leaderboards_error
    /\ pc = "done" =>
          /\ TokenCounterSum = Len(all_tokens)
          /\ LeaderboardCounterSum = Len(config.leaderboards)

\* reached: a run returned with two token results, an unchanged leaderboard
\* and another leaderboard result
C11_Witness ==
    /\ pc = "done"
    /\ TokenCounterSum >= 2
    /\ stats.leaderboards_unchanged >= 1
    /\ LeaderboardCounterSum >= 2

\* C12: no two save_page calls of one run carry the same page title.
C12_NoTitleSyncedTwice ==
    \A a, b \in 1..Len(calls) : a # b => calls[a].title # calls[b].title

\* the value extract_value is to find under a key: the field itself, or the
\* element of a one-element list, or None for an empty list or a missing field
Unwrapped(data, f) ==
    IF f \notin DOMAIN data THEN PyNone
    ELSE IF data[f].t # "list" THEN data[f]
    ELSE IF data[f].l = <<>> THEN PyNone
    ELSE data[f].l[1]

\* the object with the one-element list under f replaced by its element
Bare(data, f) ==
    IF f \in DOMAIN data /\ data[f].t = "list" /\ data[f].l # <<>>
    THEN [data EXCEPT ![f] = data[f].l[1]]
    ELSE data

\* C13: for songId, date and blockheight, parse_token gives the same Token for
\* [v] as for v and None for []; owner, ownerDisplay, uri and videoHash are
\* taken as given, a list staying a list.
C13_OneElementListParsesAsItsElement ==
    op = "parse_token" =>
        LET data == arg.token_data
        IN  /\ \A f \in {"songId", "date", "blockheight"} :
                  res = parse_token(arg.token_id, Bare(data, f), arg.source_key)
            /\ ("songId" \in DOMAIN data /\ data["songId"] = PyList(<<>>))
                  => res.song_id = PyNone
            /\ res.date = Unwrapped(data, "date")
            /\ res.blockheight = Unwrapped(data, "blockheight")
            /\ res.owner = (IF "owner" \in DOMAIN data THEN data["owner"] ELSE PyS(""))
            /\ res.owner_display =
                  (IF "ownerDisplay" \in DOMAIN data THEN data["ownerDisplay"]
                   ELSE res.owner)
            /\ res.uri = (IF "uri" \in DOMAIN data THEN data["uri"] ELSE PyNone)
            /\ res.video_hash =
                  (IF "videoHash" \in DOMAIN data THEN data["videoHash"] ELSE PyNone)

\* reached: a token whose songId is ["5"], whose date is [] and whose owner is
\* a list has been parsed
C13_Witness ==
    /\ op = "parse_token"
    /\ "songId" \in DOMAIN arg.token_data
    /\ arg.token_data["songId"] = PyList(<<PyS("5")>>)
    /\ "date" \in DOMAIN arg.token_data
    /\ arg.token_data["date"] = PyList(<<>>)
    /\ "owner" \in DOMAIN arg.token_data
    /\ arg.token_data["owner"].t = "list"
    /\ res.song_id = PyS("5")

\* the song_id the raw songId is to be stored as
StoredSongId(raw) ==
    CASE raw = PyS("5")  -> PyS("5")
      [] raw = PyInt(5)  -> PyS("5")
      [] raw = PyS("0")  -> PyS("0")
      [] raw = PyInt(0)  -> PyNone
      [] raw = PyS("")   -> PyNone
      [] raw = PyNone    -> PyNone

\* C14: song_id is the string form of the unwrapped raw songId when that is
\* truthy and None otherwise: "0" gives "0"; 0, "", null, a missing field and
\* [] give None.
C14_SongIdIsStringOrNone ==
    op = "parse_token" =>
        res.song_id = StoredSongId(Unwrapped(arg.token_data, "songId"))

\* reached: the raw string "0" was stored as "0", and the raw integer 0 as None
C14_Witness ==
    /\ op = "parse_token"
    /\ "songId" \in DOMAIN arg.token_data
    /\ \/ arg.token_data["songId"] = PyS("0") /\ res.song_id = PyS("0")
       \/ arg.token_data["songId"] = PyInt(0) /\ res.song_id = PyNone

\* the text has the character c
HasChar(s, c) == \E j \in 1..Len(s) : SubSeq(s, j, j) = c

\* the declarations of template tpl outside <pre> blocks, in page order
Declared(wikitext, tpl) ==
    SelectSeq(wikitext, LAMBDA seg : seg.tpl = tpl /\ ~seg.pre)

\* the declarations that count: a source with a key=value pair, a leaderboard
\* with a non-empty page
SourcesDeclared(wikitext) ==
    SelectSeq(Declared(wikitext, "BlueRailroadSource"),
              LAMBDA seg : HasChar(seg.body, "="))

LeaderboardsDeclared(wikitext) ==
    SelectSeq(Declared(wikitext, "BlueRailroadLeaderboard"),
              LAMBDA seg : ParamOr(parse_template_params(seg.body), "page", "") # "")

\* every parameter of the body comes from a part that has an "="
ParamsHaveEquals(body) ==
    LET params == parse_template_params(body)
        parts  == split(body, "|")
    IN  /\ \A p \in 1..Len(params) :
              \E q \in 1..Len(parts) :
                  /\ HasChar(parts[q], "=")
                  /\ strip(SubSeq(parts[q], 1, Find(parts[q], "=") - 1)) = params[p].k
        /\ Len(params) <= Cardinality({q \in 1..Len(parts) : HasChar(parts[q], "=")})

\* C15: parse_config_from_wikitext answers None exactly when no source and no
\* leaderboard was accepted; the result holds the leaderboards declared with a
\* non-empty page and no other; a part without "=" gives no parameter.
C15_NotFoundIffNothingAccepted ==
    op = "parse_config_from_wikitext" =>
        LET nS == Len(SourcesDeclared(arg))
            nL == Len(LeaderboardsDeclared(arg))
        IN  /\ res.found <=> (nS > 0 \/ nL > 0)
            /\ Len(res.leaderboards) = nL
            /\ \A j \in 1..Len(res.leaderboards) :
                  /\ res.leaderboards[j].page # ""
                  /\ res.leaderboards[j].page =
                        DictGet(parse_template_params(LeaderboardsDeclared(arg)[j].body),
                                "page")
            /\ nS > 0 => Len(res.sources) = nS
            /\ \A j \in 1..Len(arg) : ParamsHaveEquals(arg[j].body)

\* reached: a page whose only declarations are a source without key=value pair
\* and a leaderboard with a blank page was answered with None
C15_Witness ==
    /\ op = "parse_config_from_wikitext"
    /\ arg = << Tpl("BlueRailroadSource", "|draft"),
                Tpl("BlueRailroadLeaderboard", "|title=No page|page= ") >>
    /\ ~res.found

\* C16: every configuration the bot runs with has at least one source: the
\* default configuration (one source, one leaderboard) when the page is
\* absent, empty or declares nothing that counts, and the hardcoded default
\* source when leaderboards were found but no source.
C16_EveryConfigHasASource ==
    config # NoConfig =>
        LET nS == Len(SourcesDeclared(config_page.text))
            nL == Len(LeaderboardsDeclared(config_page.text))
        IN  /\ Len(config.sources) >= 1
            /\ (~config_page.exists \/ config_page.text = <<>> \/ (nS = 0 /\ nL = 0))
                  => /\ config = get_default_config
                     /\ config.sources = <<DefaultSource>>
                     /\ Len(config.leaderboards) = 1
            /\ (config_page.exists /\ nS = 0 /\ nL > 0)
                  => /\ config.sources = <<DefaultSource>>
                     /\ Len(config.leaderboards) = nL
            /\ (config_page.exists /\ nS > 0) => Len(config.sources) = nS

\* reached: a run returned whose configuration page declared a leaderboard and
\* no source
C16_Witness ==
    /\ pc = "done"
    /\ config_page.exists
    /\ SourcesDeclared(config_page.text) = <<>>
    /\ LeaderboardsDeclared(config_page.text) # <<>>
    /\ config.sources = <<DefaultSource>>
    /\ config # get_default_config
    /\ calls # <<>>

\* the save_page calls of the run before this one
PreviousCalls == IF runs = <<>> THEN <<>> ELSE runs[Len(runs)].calls

Contains(s, sub) ==
    \E j \in 1..(Len(s) - Len(sub) + 1) : SubSeq(s, j, j + Len(sub) - 1) = sub

\* the CID of a current-schema token with this video hash; an empty hash
\* counts as absent
CidOfVideoHash(h) ==
    CASE h = PyNone          -> PyNone
      [] h = PyS("")         -> PyNone
      [] h = PyS(ZeroHash)   -> PyNone
      [] h = PyS("0x")       -> PyS("")
      [] h = PyS("0xabc123") -> PyS("abc123")
      [] h = PyS("abc123")   -> PyS("abc123")

\* the CID of a legacy token with this uri
CidOfUri(u) ==
    CASE u = PyS("ipfs://QmV1Token1") -> PyS("QmV1Token1")
      [] u = PyS("ipfs://")           -> PyS("")
      [] OTHER                        -> PyNone

\* C18: the CID of a current-schema token (blockheight present) is its
\* videoHash without a leading 0x, None when the hash is absent or all zeros,
\* and never comes from the uri; the CID of a legacy token is what follows
\* ipfs:// in the uri, None when the uri is absent or starts otherwise; the
\* token page says uri_type=ipfs exactly when the CID is non-empty.
C18_CidFromVideoHashOrUri ==
    op = "ipfs_cid" =>
        /\ res.cid = (IF arg.blockheight # PyNone
                      THEN CidOfVideoHash(arg.video_hash)
                      ELSE CidOfUri(arg.uri))
        /\ Contains(res.page, "\n|uri_type=ipfs\n")
              <=> (res.cid # PyNone /\ res.cid # PyS(""))
        /\ Contains(res.page, "\n|uri_type=unknown\n")
              <=> (res.cid = PyNone \/ res.cid = PyS(""))
        /\ Contains(res.page, "\n|ipfs_cid=" \o (IF res.cid = PyNone THEN "" ELSE res.cid.s)
                                 \o "\n}}")

\* reached: a current-schema token with an all-zero hash and an ipfs:// uri
\* got no CID
C18_Witness ==
    /\ op = "ipfs_cid"
    /\ arg.blockheight = PyInt(12345678)
    /\ arg.video_hash = PyS(ZeroHash)
    /\ arg.uri = PyS("ipfs://QmV1Token1")
    /\ res.cid = PyNone
    /\ Contains(res.page, "\n|uri_type=unknown\n")

\* the non-zero dates passed to add_token so far
DatesPassed ==
    {arg[j].date.n : j \in {k \in 1..Len(arg) : arg[k].date # PyNone /\ arg[k].date # PyInt(0)}}

MaxOf(S) == CHOOSE x \in S : \A y \in S : y <= x

MinOf(S) == CHOOSE x \in S : \A y \in S : x <= y

\* C20: after any sequence of add_token calls with integer or None dates,
\* token_count is the number of calls, token_ids the ids in call order,
\* newest_date the maximum and oldest_date the minimum of the non-zero dates
\* passed, both 0 if there is none.
C20_StatsSummariseTheCalls ==
    op = "add_token" =>
        /\ res.token_count = Len(arg)
        /\ res.token_ids = [j \in 1..Len(arg) |-> arg[j].token_id]
        /\ res.newest_date = (IF DatesPassed = {} THEN 0 ELSE MaxOf(DatesPassed))
        /\ res.oldest_date = (IF DatesPassed = {} THEN 0 ELSE MinOf(DatesPassed))

\* the patterns of the argument that match its title
Hits ==
    {k \in 1..Len(arg.patterns) : Match(arg.patterns[k].pattern, arg.title).matched}

\* C19: the first pattern of the list that matches the title decides the
\* result alone: (no guests, skipped) if it is a skip pattern, otherwise the
\* guests it captures with skipped false; with no matching pattern the result
\* is (no guests, not skipped).
C19_FirstMatchingPatternDecides ==
    op = "extract_guest" =>
        IF Hits = {} THEN res = [guests |-> <<>>, skip |-> FALSE]
        ELSE LET first == arg.patterns[MinOf(Hits)]
             IN  /\ res = extract_guest(arg.title, << first >>)
                 /\ first.skip => res = [guests |-> <<>>, skip |-> TRUE]
                 /\ ~first.skip =>
                       /\ ~res.skip
                       /\ res.guests = GuestsOf(Match(first.pattern, arg.title).groups)

\* reached: a guest pattern stood before a skip pattern that matches too, and
\* the two guests it captured are the result
C19_Witness ==
    /\ op = "extract_guest"
    /\ arg.title = "Ep 2: Billy Strings & Bryan Sutton"
    /\ arg.patterns = << Pattern("Ep 2: ", <<"guest">>, FALSE),
                         Pattern("", <<"guest">>, TRUE) >>
    /\ res = [guests |-> << "Billy Strings", "Bryan Sutton" >>, skip |-> FALSE]

\* the entries of mapping d, as indices, whose token has this owner
OwnedBy(d, owner) == {j \in 1..Len(d) : d[j].v.owner = owner}

\* the sum of token_count over the buckets
RECURSIVE SumOfCounts(_)
SumOfCounts(owner_stats) ==
    IF owner_stats = <<>> THEN 0
    ELSE Head(owner_stats).v.token_count + SumOfCounts(Tail(owner_stats))

\* C21: calculate_owner_stats puts every token of its input with a non-empty
\* owner into exactly one bucket, the one keyed by the token's raw owner
\* string (compared case-sensitively), and tokens with an empty owner into
\* none; the token counts of the buckets add up to the number of input tokens
\* with a non-empty owner.
C21_EveryOwnedTokenInOneBucket ==
    op = "generate_leaderboard_content" =>
        LET given   == res.filtered
            buckets == res.owner_stats
        IN  /\ \A a, b \in 1..Len(buckets) : buckets[a].k = buckets[b].k => a = b
            /\ {buckets[b].k : b \in 1..Len(buckets)}
                  = {given[j].v.owner : j \in 1..Len(given)} \ {PyS("")}
            /\ \A b \in 1..Len(buckets) :
                  /\ buckets[b].v.address = buckets[b].k
                  /\ buckets[b].v.token_count = Cardinality(OwnedBy(given, buckets[b].k))
                  /\ Len(buckets[b].v.token_ids) = buckets[b].v.token_count
                  /\ \A j \in OwnedBy(given, buckets[b].k) :
                        \E n \in 1..Len(buckets[b].v.token_ids) :
                            buckets[b].v.token_ids[n] = given[j].v.token_id
            /\ SumOfCounts(buckets)
                  = Cardinality({j \in 1..Len(given) : given[j].v.owner # PyS("")})

\* reached: of three tokens 0xAlice holds two and 0xalice one; there are two
\* buckets, with two tokens and with one
C21_Witness ==
    /\ op = "generate_leaderboard_content"
    /\ Len(res.filtered) = 3
    /\ Len(res.owner_stats) = 2
    /\ DictHas(res.owner_stats, PyS("0xAlice"))
    /\ DictHas(res.owner_stats, PyS("0xalice"))
    /\ DictGet(res.owner_stats, PyS("0xAlice")).token_count = 2
    /\ DictGet(res.owner_stats, PyS("0xalice")).token_count = 1
    /\ SumOfCounts(res.owner_stats) = Len(res.filtered)

\* C22: the display_name of an owner's bucket is the owner_display of the
\* first token of that owner in the iteration order of the mapping; later
\* tokens of the owner with another owner_display do not change it.
C22_DisplayNameOfFirstToken ==
    op = "generate_leaderboard_content" =>
        \A b \in 1..Len(res.owner_stats) :
            LET mine == OwnedBy(res.filtered, res.owner_stats[b].k)
            IN  res.owner_stats[b].v.display_name
                  = res.filtered[MinOf(mine)].v.owner_display

\* reached: 0xAlice's first token shows her as alice.eth, a later one as
\* Alice (renamed), and the bucket says alice.eth
C22_Witness ==
    /\ op = "generate_leaderboard_content"
    /\ \E a, b \in 1..Len(res.filtered) :
          /\ a < b
          /\ res.filtered[a].v.owner = PyS("0xAlice")
          /\ res.filtered[b].v.owner = PyS("0xAlice")
          /\ res.filtered[a].v.owner_display = PyS("alice.eth")
          /\ res.filtered[b].v.owner_display = PyS("Alice (renamed)")
          /\ \A c \in 1..(a - 1) : res.filtered[c].v.owner # PyS("0xAlice")
    /\ DictHas(res.owner_stats, PyS("0xAlice"))
    /\ DictGet(res.owner_stats, PyS("0xAlice")).display_name = PyS("alice.eth")

\* the bucket of an owner address in the result's owner_stats
BucketOf(owner_addr) == DictGet(res.owner_stats, owner_addr)

\* where an owner address first appears in the stats mapping
FirstAppearance(owner_addr) == DictIndex(res.owner_stats, owner_addr)

\* whether a may stand before b in the order of this sort mode, and whether
\* the two have equal sort keys
MayPrecede(sort_by, a, b) ==
    CASE sort_by = "count"  -> a.token_count >= b.token_count
      [] sort_by = "newest" -> a.newest_date >= b.newest_date
      [] sort_by = "oldest" ->
            IF a.oldest_date = 0 THEN b.oldest_date = 0
            ELSE b.oldest_date = 0 \/ a.oldest_date <= b.oldest_date

EqualKeys(sort_by, a, b) ==
    CASE sort_by = "count"  -> a.token_count = b.token_count
      [] sort_by = "newest" -> a.newest_date = b.newest_date
      [] sort_by = "oldest" -> a.oldest_date = b.oldest_date

\* C23: sort_owners returns the owner addresses, each exactly once, ordered
\* by non-increasing token_count (count), by non-increasing newest_date
\* (newest), or by non-decreasing oldest_date with the owners whose
\* oldest_date is 0 after all others (oldest); owners with equal sort keys
\* keep the order of their first appearance in the mapping.
C23_SortOwnersOrdersAPermutation ==
    op = "generate_leaderboard_content" =>
        LET out  == res.sorted_owners
            mode == arg.config.sort
        IN  /\ Len(out) = Len(res.owner_stats)
            /\ {out[n] : n \in 1..Len(out)}
                  = {res.owner_stats[b].k : b \in 1..Len(res.owner_stats)}
            /\ \A m, n \in 1..Len(out) :
                  m < n =>
                    /\ out[m] # out[n]
                    /\ MayPrecede(mode, BucketOf(out[m]), BucketOf(out[n]))
                    /\ EqualKeys(mode, BucketOf(out[m]), BucketOf(out[n]))
                          => FirstAppearance(out[m]) < FirstAppearance(out[n])

\* reached: sorted by oldest date, 0xBob, whose only token has no date, stands
\* after 0xAlice although he comes first in the mapping
C23_Witness ==
    /\ op = "generate_leaderboard_content"
    /\ arg.config.sort = "oldest"
    /\ Len(res.owner_stats) = 2
    /\ res.owner_stats[1].k = PyS("0xBob")
    /\ res.owner_stats[1].v.oldest_date = 0
    /\ res.owner_stats[2].v.oldest_date > 0
    /\ res.sorted_owners = << res.owner_stats[2].k, PyS("0xBob") >>

\* the number a token id is ordered by
NumericValue(token_id) == IF isdigit(token_id) THEN int(token_id) ELSE 0

\* the ids of a list that are ordered by the number n, in the list's order
IdsWithValue(token_ids, n) == SelectSeq(token_ids, LAMBDA x : NumericValue(x) = n)

\* C24: a leaderboard row lists the owner's token ids in non-decreasing
\* numeric order, an id that is not all digits counting as 0; ids of equal
\* numeric value keep the order in which they were added to the bucket; each
\* of the owner's tokens is listed exactly once.
C24_RowIdsInNumericOrder ==
    op = "generate_leaderboard_content" =>
        \A r \in 1..Len(res.rows) :
            LET listed == res.rows[r].token_ids
                added  == BucketOf(res.rows[r].owner).token_ids
            IN  /\ \A m, n \in 1..Len(listed) :
                      m < n => NumericValue(listed[m]) <= NumericValue(listed[n])
                /\ \A n \in 1..Len(added) :
                      IdsWithValue(listed, NumericValue(added[n]))
                        = IdsWithValue(added, NumericValue(added[n]))
                /\ Len(listed) = Len(added)
                /\ Len(listed) = Cardinality(OwnedBy(res.filtered, res.rows[r].owner))

\* reached: 0xAlice's ids were added as 10, abc, 0 and her row lists
\* abc, 0, 10
C24_Witness ==
    /\ op = "generate_leaderboard_content"
    /\ Len(res.rows) = 1
    /\ BucketOf(res.rows[1].owner).token_ids = << "10", "abc", "0" >>
    /\ res.rows[1].token_ids = << "abc", "0", "10" >>
    /\ Contains(res.content,
          "[[Blue Railroad Token abc|#abc]], [[Blue Railroad Token 0|#0]], [[Blue Railroad Token 10|#10]]")

\* s and t are the same string when letter case is ignored
SameIgnoringCase(s, t) ==
    /\ Len(s) = Len(t)
    /\ \A n \in 1..Len(s) :
          \/ SubSeq(s, n, n) = SubSeq(t, n, n)
          \/ \E c \in 1..26 :
                {SubSeq(s, n, n), SubSeq(t, n, n)} = {Upper[c], Lower[c]}

\* whether an entry is to be kept under the filters of the configuration
Wanted(token, lb_config) ==
    /\ lb_config.filter_song_id # PyNone => token.song_id = lb_config.filter_song_id
    /\ lb_config.filter_owner # PyNone =>
          SameIgnoringCase(token.owner.s, lb_config.filter_owner.s)

\* C25: filter_tokens returns exactly the entries of the input mapping, under
\* their keys and in input order, whose song_id equals filter_song_id (when
\* set) and whose owner equals filter_owner ignoring letter case (when set);
\* with no filter set it returns every entry.
C25_FilterKeepsExactlyTheMatches ==
    op = "generate_leaderboard_content" =>
        /\ res.filtered
              = SelectSeq(arg.tokens, LAMBDA e : Wanted(e.v, arg.config))
        /\ (arg.config.filter_song_id = PyNone /\ arg.config.filter_owner = PyNone)
              => res.filtered = arg.tokens

\* reached: with the owner filter 0XALICE and the song filter 5, the tokens of
\* 0xalice and 0xAlice with song 5 are kept and 0xAlice's token of song 6 is not
C25_Witness ==
    /\ op = "generate_leaderboard_content"
    /\ arg.config.filter_owner = PyS("0XALICE")
    /\ arg.config.filter_song_id = PyS("5")
    /\ DictKeys(arg.tokens) = << "blueRailroads_1", "blueRailroads_10", "blueRailroads_2" >>
    /\ DictKeys(res.filtered) = << "blueRailroads_1", "blueRailroads_2" >>

\* the sum of the Tokens column over the rows of a leaderboard
RECURSIVE SumOfTokensColumn(_)
SumOfTokensColumn(rows) ==
    IF rows = <<>> THEN 0
    ELSE Head(rows).token_count + SumOfTokensColumn(Tail(rows))

\* the Statistics lines of a page showing these two figures
StatisticsLines(total_tokens, total_holders) ==
    "\n* '''Total Tokens:''' " \o ToString(total_tokens)
       \o "\n* '''Total Holders:''' " \o ToString(total_holders) \o "\n"

\* C30: in every generated leaderboard the Total Tokens figure is the sum of
\* the Tokens column over all rows and the Total Holders figure is the number
\* of rows, for every token mapping and filter, tokens with an empty owner
\* and owners differing only in letter case included.
C30_TotalsAgreeWithTheRows ==
    op = "generate_leaderboard_content" =>
        Contains(res.content,
                 StatisticsLines(SumOfTokensColumn(res.rows), Len(res.rows)))

\* the filtered tokens that have no owner
Unowned(filtered) == {j \in 1..Len(filtered) : filtered[j].v.owner = PyS("")}

\* C30, amended: the Total Tokens figure is the number of filtered tokens,
\* that is the sum of the Tokens column plus the number of filtered tokens
\* with an empty owner, and the Total Holders figure is the number of rows.
C30_TotalsCountFilteredTokensAndRows ==
    op = "generate_leaderboard_content" =>
        /\ Contains(res.content,
              StatisticsLines(SumOfTokensColumn(res.rows)
                                 + Cardinality(Unowned(res.filtered)),
                              Len(res.rows)))
        /\ Len(SelectSeq(arg.tokens, LAMBDA e : Wanted(e.v, arg.config)))
              = SumOfTokensColumn(res.rows) + Cardinality(Unowned(res.filtered))

\* reached: of three filtered tokens one has no owner and two are 0xAlice's
\* and 0xalice's; the page shows three tokens and two holders, the rows two
\* tokens
C30_Witness ==
    /\ op = "generate_leaderboard_content"
    /\ Len(res.filtered) = 3
    /\ Cardinality(Unowned(res.filtered)) = 1
    /\ Len(res.rows) = 2
    /\ SumOfTokensColumn(res.rows) = 2
    /\ {res.rows[1].owner, res.rows[2].owner} = {PyS("0xAlice"), PyS("0xalice")}
    /\ Contains(res.content, StatisticsLines(3, 2))

\* the number of (source, tokenId) records the document holds under the
\* configured sources
RECURSIVE RecordCount(_)
RecordCount(sources) ==
    IF sources = <<>> THEN 0
    ELSE Len(SourceObject(Head(sources).chain_data_key)) + RecordCount(Tail(sources))

\* the configured sources have pairwise distinct chain_data_key
DistinctSourceKeys ==
    \A a, b \in 1..Len(config.sources) :
        config.sources[a].chain_data_key = config.sources[b].chain_data_key => a = b

\* C26: for sources with pairwise distinct chainDataKey no insertion into the
\* aggregated mapping overwrites an earlier entry: the mapping has as many
\* entries as there are (source, tokenId) records under the configured
\* sources in the document; a source whose key the document lacks contributes
\* no entry and no error.
C26_NoInsertionOverwrites ==
    (Aggregated /\ DistinctSourceKeys) =>
        /\ Len(all_tokens) = RecordCount(config.sources)
        /\ \A s \in 1..Len(config.sources) :
              ~DictHas(chain_data, config.sources[s].chain_data_key) =>
                  \A n \in 1..Len(all_tokens) :
                      all_tokens[n].v.source_key # config.sources[s].chain_data_key

\* the calls of this run that were classified created or updated
WritingCalls == SelectSeq(calls, LAMBDA c : c.action \in {"created", "updated"})

\* C28: DryRunClient.saved_pages has one entry for every save_page call
\* classified created or updated and none for a call classified unchanged;
\* after a run in which every page is unchanged it is empty.
C28_SavedPagesAreTheWrites ==
    client = "dry" =>
        /\ Len(saved_pages) = Len(WritingCalls)
        /\ \A n \in 1..Len(WritingCalls) :
              /\ n <= Len(saved_pages)
              /\ saved_pages[n][1] = WritingCalls[n].title
              /\ saved_pages[n][2] = WritingCalls[n].content
        /\ (pc = "done" /\ \A n \in 1..Len(calls) : calls[n].action = "unchanged")
              => saved_pages = <<>>

\* C27: save_page does no optimistic concurrency control.  What a call does
\* is decided by what it read alone: it writes its content and reports
\* created (nothing read) or updated (something read) whatever the page holds
\* by then, reports error only when the transport fails, and so overwrites an
\* edit made between its read and its write without detecting it.
C27_WriteIgnoresWhatThePageHoldsNow ==
    client = "mw" =>
        \A n \in 1..Len(calls) :
            LET c == calls[n]
            IN  /\ c.read = PyS(c.content) <=> c.action = "unchanged"
                /\ c.action = "unchanged" => c.after = c.found
                /\ c.action = "error" <=> c.fault = "write"
                /\ (c.read # PyS(c.content) /\ c.fault = "none") =>
                      /\ c.action = (IF c.read = PyNone THEN "created" ELSE "updated")
                      /\ c.after = PyS(c.content)

\* reached: the lost update.  save_page read that the leaderboard page does
\* not exist, another writer then created it by hand, and save_page wrote over
\* it and reported created; the wiki holds nothing of the other writer's edit
C27_Witness ==
    /\ client = "mw"
    /\ edits = << [title |-> "Blue Railroad Leaderboard", text |-> HandEdit] >>
    /\ Len(calls) = 1
    /\ calls[1].title = "Blue Railroad Leaderboard"
    /\ calls[1].read = PyNone
    /\ calls[1].found = PyS(HandEdit)
    /\ calls[1].action = "created"
    /\ calls[1].after = PyS("(new standings)")
    /\ res = SaveResult("Blue Railroad Leaderboard", "created", "")
    /\ \A t \in DOMAIN pages : pages[t] # HandEdit

\* C29: a dry run changes nothing.  No save_page call on a DryRunClient alters
\* existing_pages, so get_page_content and page_exists answer the same for
\* every title before and after it, and saving the same title and content
\* twice on one client yields the same action both times.
C29_DryRunChangesNothing ==
    /\ [][client = "dry" =>
            /\ pages' = pages
            /\ \A t \in SyncTitles :
                  /\ DryGetPageContent(pages', t) = DryGetPageContent(pages, t)
                  /\ DryPageExists(pages', t) = DryPageExists(pages, t)]_allvars
    /\ [](client = "dry" =>
            \A a, b \in 1..Len(calls) :
                (calls[a].title = calls[b].title /\ calls[a].content = calls[b].content)
                    => calls[a].action = calls[b].action)

\* reached: the same new text was saved twice to the leaderboard page of a
\* DryRunClient; both calls were classified updated and the page still has
\* its old text
C29_Witness ==
    /\ client = "dry"
    /\ Len(calls) = 2
    /\ calls[1].title = "Blue Railroad Leaderboard"
    /\ calls[2].title = "Blue Railroad Leaderboard"
    /\ calls[1].content = "(new standings)"
    /\ calls[2].content = "(new standings)"
    /\ calls[1].action = "updated"
    /\ calls[2].action = "updated"
    /\ DryGetPageContent(pages, "Blue Railroad Leaderboard") = PyS("(old standings)")
    /\ Len(saved_pages) = 2


====
